---- MODULE Spec2Model ----
(* SOAP adapter layer of RealDeCuenca (src/webapp/servicios): each adapter  *)
(* builds an envelope, POSTs it once, and decodes the XML response.         *)
(*                                                                          *)
(* A text is a sequence of one-character strings, so that lower(), strip()  *)
(* and int() are computed character by character as Python does.            *)
(* A Python value whose type varies is a record tagged by k:                *)
(*   [k |-> "none"], [k |-> "bool", v |-> b], [k |-> "int", v |-> n],       *)
(*   [k |-> "str", v |-> text], [k |-> "dict", v |-> record],               *)
(*   [k |-> "list", v |-> sequence], and [k |-> "raise", v |-> exception]   *)
(* for an exception in flight.                                              *)
EXTENDS Integers, Sequences, FiniteSets, TLC

VARIABLES fn, args, now, remote, sent, out, calls

vars == <<fn, args, now, remote, sent, out, calls>>

(* ------------------------------------------------------------------------ *)
(* Bounds of the model                                                      *)
(* ------------------------------------------------------------------------ *)

\* Largest number of repeated child records in a response body.
MaxRecs == 2

(* ------------------------------------------------------------------------ *)
(* Python values                                                            *)
(* ------------------------------------------------------------------------ *)

PyNone == [k |-> "none"]

PyBool(b) == [k |-> "bool", v |-> b]

PyInt(n) == [k |-> "int", v |-> n]

PyStr(t) == [k |-> "str", v |-> t]

PyDict(d) == [k |-> "dict", v |-> d]

PyList(s) == [k |-> "list", v |-> s]

Raise(type, msg) == [k |-> "raise", v |-> [type |-> type, msg |-> msg]]

IsRaise(r) == r.k = "raise"

(* ------------------------------------------------------------------------ *)
(* Texts                                                                    *)
(* ------------------------------------------------------------------------ *)

T_true == <<"t", "r", "u", "e">>

T_false == <<"f", "a", "l", "s", "e">>

T_True == <<"T", "r", "u", "e">>

T_yes == <<"y", "e", "s">>

T_abc == <<"a", "b", "c">>

T_fecha == <<"2", "0", "2", "5">>

\* str.lower() on one character.
LowerChar(c) ==
    CASE c = "T" -> "t"
      [] c = "R" -> "r"
      [] c = "U" -> "u"
      [] c = "E" -> "e"
      [] c = "F" -> "f"
      [] c = "N" -> "n"
      [] c = "S" -> "s"
      [] c = "D" -> "d"
      [] c = "A" -> "a"
      [] c = "B" -> "b"
      [] OTHER -> c

\* str.lower()
Lower(t) == [i \in 1..Len(t) |-> LowerChar(t[i])]

IsSpace(c) == c \in {" ", "\n", "\t"}

RECURSIVE LStrip(_)
LStrip(t) == IF t # <<>> /\ IsSpace(t[1]) THEN LStrip(Tail(t)) ELSE t

RECURSIVE RStrip(_)
RStrip(t) ==
    IF t # <<>> /\ IsSpace(t[Len(t)]) THEN RStrip(SubSeq(t, 1, Len(t) - 1)) ELSE t

\* str.strip()
Strip(t) == RStrip(LStrip(t))

IsDigit(c) == c \in {"0", "1", "2", "3", "4", "5", "6", "7", "8", "9"}

DigitVal(c) ==
    CASE c = "0" -> 0 [] c = "1" -> 1 [] c = "2" -> 2 [] c = "3" -> 3
      [] c = "4" -> 4 [] c = "5" -> 5 [] c = "6" -> 6 [] c = "7" -> 7
      [] c = "8" -> 8 [] c = "9" -> 9

\* str.isdigit()
IsDigitText(t) == t # <<>> /\ \A i \in 1..Len(t) : IsDigit(t[i])

RECURSIVE NatOf(_)
NatOf(t) ==
    IF t = <<>> THEN 0
    ELSE NatOf(SubSeq(t, 1, Len(t) - 1)) * 10 + DigitVal(t[Len(t)])

Unsigned(t) == IF t # <<>> /\ t[1] \in {"-", "+"} THEN Tail(t) ELSE t

\* int(text) accepts surrounding whitespace and a sign, then decimal digits.
IntParses(t) == IsDigitText(Unsigned(Strip(t)))

IntOf(t) ==
    LET s == Strip(t)
    IN  IF s[1] = "-" THEN 0 - NatOf(Unsigned(s)) ELSE NatOf(Unsigned(s))

\* int(x) for a text or None: the int, or the exception int() raises.
int(x) ==
    IF x.k = "none" THEN Raise("TypeError", "int() argument must be a string")
    ELSE IF IntParses(x.v) THEN PyInt(IntOf(x.v))
    ELSE Raise("ValueError", "invalid literal for int()")

DigitChar(n) ==
    CASE n = 0 -> "0" [] n = 1 -> "1" [] n = 2 -> "2" [] n = 3 -> "3"
      [] n = 4 -> "4" [] n = 5 -> "5" [] n = 6 -> "6" [] n = 7 -> "7"
      [] n = 8 -> "8" [] n = 9 -> "9"

RECURSIVE NatText(_)
NatText(n) ==
    IF n < 10 THEN <<DigitChar(n)>>
    ELSE NatText(n \div 10) \o <<DigitChar(n % 10)>>

\* str(x), which is also what an f-string puts in place of {x}.
str(x) ==
    CASE x.k = "bool" -> IF x.v THEN T_True ELSE <<"F", "a", "l", "s", "e">>
      [] x.k = "none" -> <<"N", "o", "n", "e">>
      [] x.k = "int" -> IF x.v < 0 THEN <<"-">> \o NatText(0 - x.v) ELSE NatText(x.v)
      [] x.k = "str" -> x.v

\* Python truthiness: bool(x).
Truthy(x) ==
    CASE x.k = "bool" -> x.v
      [] x.k = "none" -> FALSE
      [] x.k = "int" -> x.v # 0
      [] x.k = "str" -> x.v # <<>>

(* ------------------------------------------------------------------------ *)
(* The remote service: what one POST can meet                               *)
(* ------------------------------------------------------------------------ *)

\* A leaf element of a record: missing, or present with its text (an empty
\* element has the text <<>>).
Absent == [k |-> "absent"]

Leaf(t) == [k |-> "text", v |-> t]

\* A complete record as the services write it. Nested holds the elements of
\* the record's own name written inside it, in document order.
BaseRec ==
    [Id |-> Leaf(<<"7">>), Nombre |-> Leaf(<<"A">>),
     FechaRegistro |-> Leaf(T_fecha), EsActivo |-> Leaf(T_true), Nested |-> <<>>]

\* The records of the model: the complete record and every record that
\* differs from it in one leaf.
Recs ==
    {BaseRec}
      \cup {[BaseRec EXCEPT !.Id = l] :
              l \in {Absent, Leaf(<<>>), Leaf(<<"8">>), Leaf(<<" ", "9", " ">>),
                     Leaf(T_abc), Leaf(<<"0">>), Leaf(<<"-", "1">>)}}
      \cup {[BaseRec EXCEPT !.Nombre = l] :
              l \in {Absent, Leaf(<<>>), Leaf(<<"<", "&", ">">>)}}
      \cup {[BaseRec EXCEPT !.FechaRegistro = l] : l \in {Absent}}
      \cup {[BaseRec EXCEPT !.EsActivo = l] :
              l \in {Absent, Leaf(<<>>), Leaf(<<"T", "R", "U", "E">>), Leaf(T_True),
                     Leaf(T_false), Leaf(<<"1">>), Leaf(T_yes),
                     Leaf(<<" ", "t", "r", "u", "e", " ">>)}}
      \cup {[BaseRec EXCEPT !.Nested = <<[BaseRec EXCEPT !.Id = Leaf(<<"3">>)]>>]}

RecSeqs(n) == UNION {[1..m -> Recs] : m \in 0..n}

\* The text of a scalar result element.
ScalarTexts ==
    {T_true, T_True, T_false, <<"1">>, T_yes, <<"7">>, <<"0">>, <<"-", "1">>,
     <<" ", "7", " ">>, T_abc, <<" ", "t", "r", "u", "e", " ">>}

\* How the operation's Result element is written in the body: not at all,
\* as <opResult>, as <tem:opResult>, or as <opResult attr="...">. All three
\* written forms are the same namespace-qualified element.
NodeForms == {"plain", "prefixed", "attrs"}

\* A response body. wf: it is well-formed XML. node: how the Result element
\* is written. text: the Result element's own text (None when it has none).
\* recs: the Result element's repeated child records, in document order; for
\* an operation whose Result element is itself the record, its leaves are
\* those of the first of recs.
XmlBody(wf, node, text, recs) ==
    [k |-> "xml", wf |-> wf, node |-> node, text |-> text, recs |-> recs]

ScalarBodies ==
    {XmlBody(TRUE, n, PyStr(t), <<>>) : n \in NodeForms, t \in ScalarTexts}
      \cup {XmlBody(TRUE, n, PyNone, <<>>) : n \in NodeForms}

\* The number of records of a listing whose records are alternately active
\* and inactive.
MaxHotels == 3

\* Complete records, alternately active and inactive.
Alternating(n) ==
    {[i \in 1..n |->
         [BaseRec EXCEPT !.EsActivo =
              Leaf(IF (i % 2 = 1) = first THEN T_true ELSE T_false)]] :
       first \in BOOLEAN}

ListBodies(n) ==
    {XmlBody(TRUE, "plain", PyNone, rs) : rs \in RecSeqs(n) \cup Alternating(MaxHotels)}
      \cup {XmlBody(TRUE, nf, PyNone, <<r>>) : nf \in NodeForms, r \in {BaseRec}}

NoNodeBodies == {XmlBody(TRUE, "absent", PyNone, <<>>)}

MalformedBodies ==
    {XmlBody(FALSE, "absent", PyNone, <<>>),
     XmlBody(FALSE, "plain", PyStr(T_true), <<>>),
     XmlBody(FALSE, "plain", PyStr(<<"7">>), <<>>),
     XmlBody(FALSE, "plain", PyNone, <<BaseRec>>)}

\* The characters of a text as one string.
RECURSIVE Join(_)
Join(t) == IF t = <<>> THEN "" ELSE t[1] \o Join(Tail(t))

\* A text as it is written inside an element of a well-formed document.
Escape(t) ==
    [i \in 1..Len(t) |->
        CASE t[i] = "<" -> "&lt;" [] t[i] = ">" -> "&gt;" [] t[i] = "&" -> "&amp;"
          [] OTHER -> t[i]]

LeafXml(tag, leaf) ==
    IF leaf.k = "absent" THEN ""
    ELSE "<" \o tag \o ">" \o Join(Escape(leaf.v)) \o "</" \o tag \o ">"

RECURSIVE RecsXml(_)

RecXml(rec) ==
    "<Rec>" \o LeafXml("Id", rec.Id) \o LeafXml("Nombre", rec.Nombre)
      \o LeafXml("FechaRegistro", rec.FechaRegistro)
      \o LeafXml("EsActivo", rec.EsActivo) \o RecsXml(rec.Nested) \o "</Rec>"

RecsXml(recs) == IF recs = <<>> THEN "" ELSE RecXml(recs[1]) \o RecsXml(Tail(recs))

OpenTag(node) ==
    CASE node = "plain" -> "<opResult>"
      [] node = "prefixed" -> "<tem:opResult>"
      [] node = "attrs" -> "<opResult xsi:nil='false'>"

CloseTag(node) == IF node = "prefixed" THEN "</tem:opResult>" ELSE "</opResult>"

\* response.text: the body as the server wrote it. A body that is not
\* well-formed is one cut off before the envelope is closed.
Xml(body) ==
    "<Envelope>"
      \o (IF body.node = "absent" THEN ""
          ELSE OpenTag(body.node)
                 \o (IF body.text.k = "none" THEN "" ELSE Join(Escape(body.text.v)))
                 \o RecsXml(body.recs) \o CloseTag(body.node))
      \o (IF body.wf THEN "</Envelope>" ELSE "")

\* What a server answers with a status other than 200.
ErrorBodies ==
    {XmlBody(FALSE, "absent", PyNone, <<>>),
     XmlBody(TRUE, "absent", PyNone, <<>>),
     XmlBody(TRUE, "plain", PyStr(T_true), <<>>),
     XmlBody(TRUE, "plain", PyNone, <<BaseRec>>)}

ErrorStatus == {400, 404, 500, 503}

\* requests.exceptions.RequestException subclasses raised by requests.post.
Causes ==
    {[type |-> "ConnectionError", msg |-> "connection refused"],
     [type |-> "Timeout", msg |-> "read timed out"]}

Fails == {[k |-> "fail", cause |-> c] : c \in Causes}

Response(status, body) == [k |-> "resp", status |-> status, body |-> body]

Responses(bodies) ==
    {Response(200, b) : b \in bodies}
      \cup {Response(s, b) : s \in ErrorStatus, b \in ErrorBodies}

\* Everything a list-returning operation can meet.
ListRemotes ==
    Fails \cup Responses(ListBodies(MaxRecs) \cup NoNodeBodies \cup MalformedBodies)

\* Everything a scalar- or object-returning operation can meet.
ScalarRemotes ==
    Fails
      \cup Responses(ScalarBodies \cup ListBodies(1) \cup NoNodeBodies
                       \cup MalformedBodies)

(* ------------------------------------------------------------------------ *)
(* Steps every adapter is built from                                        *)
(* ------------------------------------------------------------------------ *)

\* timeout=30 of requests.post
TIMEOUT == 30

\* One POST as it leaves the adapter: the service, the operation, the texts
\* interpolated into the envelope and the timeout.
Request(service, op, fields, timeout) ==
    [service |-> service, op |-> op, fields |-> fields, timeout |-> PyInt(timeout)]

\* A POST that is repeated once.
requests_post_retry(req) == <<req, req>>

\* The requests of response = requests.post(...): the one POST.
requests_post(req) == <<req>>

NoFields == <<>>

\* A connection kept at module level: opened by the first call, dead when
\* the second call uses it.
post_kept_connection(r) ==
    IF calls = 1 THEN Raise("ConnectionError", "connection reset")
    ELSE IF r.k = "fail" THEN Raise(r.cause.type, r.cause.msg)
    ELSE r

\* requests.post(...): the response, or the transport exception.
post(r) == IF r.k = "fail" THEN Raise(r.cause.type, r.cause.msg) ELSE r

\* if response.status_code != 200: return {"error": f"HTTP {code}", "detalle": response.text}
HttpError(response) ==
    PyDict([error |-> "HTTP " \o ToString(response.status),
            detalle |-> Xml(response.body)])

\* ET.fromstring(response.text)
fromstring(body) ==
    IF body.wf THEN body
    ELSE Raise("ParseError", "not well-formed (invalid token)")

\* root.find(".//tem:<op>Result", ns): the element, or None.
find(root) == IF root.node = "absent" THEN PyNone ELSE root

\* node.findtext("tem:<field>", default, ns): the default when the element is
\* missing, "" when it is there without text.
findtext(rec, field, default) ==
    IF rec[field].k = "absent" THEN default ELSE PyStr(rec[field].v)

\* node.find("t:<field>", ns).text if node.find("t:<field>", ns) is not None
\* else None: an element without text has the text None.
find_text_or_None(rec, field) ==
    IF rec[field].k = "absent" \/ rec[field].v = <<>> THEN PyNone
    ELSE PyStr(rec[field].v)

NoLeaves ==
    [Id |-> Absent, Nombre |-> Absent, FechaRegistro |-> Absent, EsActivo |-> Absent,
     Nested |-> <<>>]

\* The leaves of a Result element that is itself the record.
Leaves(node) == IF node.recs = <<>> THEN NoLeaves ELSE node.recs[1]

\* Whether the list holds anything, as a number.
len_as_flag(s) == IF s = <<>> THEN 0 ELSE 1

\* len(list)
len(s) == Len(s)

\* findall(".//t:<Record>"): every element of the record's name at any depth,
\* in document order -- a record, then those nested in it, then the next.
RECURSIVE findall_descendants(_)
findall_descendants(recs) ==
    IF recs = <<>> THEN <<>>
    ELSE <<recs[1]>> \o findall_descendants(recs[1].Nested)
           \o findall_descendants(Tail(recs))

\* The first exception raised while building a list, or None.
FirstRaise(s) ==
    IF \E i \in 1..Len(s) : IsRaise(s[i])
    THEN s[CHOOSE i \in 1..Len(s) :
               IsRaise(s[i]) /\ \A j \in 1..(i - 1) : ~IsRaise(s[j])]
    ELSE PyNone

\* Keeping the active records only.
NotRaisedAndActive(x) == ~IsRaise(x) /\ x.v.EsActivo.v

NotRaised(x) == ~IsRaise(x)

\* A handler that catches the transport errors only.
except_RequestException(r) ==
    IF IsRaise(r) /\ r.v.type \in {"ConnectionError", "Timeout"}
    THEN PyDict([error |-> r.v.msg])
    ELSE r

(* except Exception as ex: return {"error": str(ex)} *)
except_Exception(r) == IF IsRaise(r) THEN PyDict([error |-> r.v.msg]) ELSE r

\* result_node.text.strip(): None has no strip().
strip(x) ==
    IF x.k = "none"
    THEN Raise("AttributeError", "'NoneType' object has no attribute 'strip'")
    ELSE PyStr(Strip(x.v))

\* What a substring search of response.text finds between <opResult> and
\* </opResult>: the element's text, or its children's markup.
Between(body) ==
    IF body.recs # <<>> THEN <<"<", "I", "d", ">", "7", "<", "/", "I", "d", ">">>
    ELSE IF body.text.k = "none" THEN <<>> ELSE body.text.v

\* "<opResult>" in response.text: only the element written exactly so.
HasLiteralTag(body) == body.node = "plain"

(* ------------------------------------------------------------------------ *)
(* Arguments                                                                *)
(* ------------------------------------------------------------------------ *)

\* A key a dict argument does not have.
Missing == [k |-> "missing"]

\* d.get(key, default)
get(d, key, default) == IF d[key].k = "missing" THEN default ELSE d[key]

\* d[key]
getitem(d, key) ==
    IF d[key].k = "missing" THEN Raise("KeyError", key) ELSE d[key]

\* Identifiers passed as int arguments.
Ids == {PyInt(5), PyInt(0), PyInt(-1)}

\* Identifiers as a caller can pass them: ints, None, a numeric string, a
\* bool.
IdValues == {PyInt(5), PyInt(0), PyInt(-1), PyNone, PyStr(<<"5">>), PyBool(TRUE)}

\* isinstance(x, int) and x > 0: bool is a subclass of int and True > 0.
IsPositiveInt(x) == (x.k = "int" /\ x.v > 0) \/ x = PyBool(TRUE)

BaseEntidad ==
    [Id |-> PyInt(5), Nombre |-> PyStr(<<"A">>), FechaRegistro |-> PyStr(T_fecha),
     EsActivo |-> PyBool(TRUE)]

EsActivoArgs ==
    {PyBool(FALSE), Missing, PyNone, PyInt(0), PyInt(1), PyStr(T_false)}

\* The dict arguments of the model: a complete one and every one that differs
\* from it in one key.
Entidades ==
    {BaseEntidad}
      \cup {[BaseEntidad EXCEPT !.Id = x] :
              x \in {PyInt(0), PyInt(-1), PyInt(12), Missing, PyNone, PyStr(T_abc)}}
      \cup {[BaseEntidad EXCEPT !.Nombre = x] :
              x \in {PyStr(<<>>), Missing, PyStr(<<"<", "&", ">">>), PyStr(<<" ", "A", " ">>)}}
      \* timestamps: none, one with a blank before it, a text that is no timestamp
      \cup {[BaseEntidad EXCEPT !.FechaRegistro = x] :
              x \in {Missing, PyStr(<<" ">> \o T_fecha), PyStr(T_abc)}}
      \cup {[BaseEntidad EXCEPT !.EsActivo = x] : x \in EsActivoArgs}

(* ------------------------------------------------------------------------ *)
(* wsHotel                                                                  *)
(* ------------------------------------------------------------------------ *)

\* The dict built from one <Hotel>, or the exception int() raises.
wsHotel_hotel(node) ==
    LET Id == int(findtext(node, "Id", PyStr(<<"0">>)))
    IN  IF IsRaise(Id) THEN Id
        ELSE PyDict(
               [Id |-> Id,
                Nombre |-> findtext(node, "Nombre", PyStr(<<>>)),
                FechaRegistro |-> findtext(node, "FechaRegistro", PyStr(<<>>)),
                EsActivo |->
                    PyBool(Lower(findtext(node, "EsActivo", PyStr(T_false)).v)
                             = T_true)])

wsHotel_seleccionarHoteles_try(r) ==
    LET response == post(r)
    IN  IF IsRaise(response) THEN response
        ELSE IF response.status # 200 THEN HttpError(response)
        ELSE LET root == fromstring(response.body)
             IN  IF IsRaise(root) THEN root
                 ELSE LET result_node == find(root)
                      IN  IF result_node.k = "none"
                          THEN PyDict([exito |-> FALSE, hoteles |-> <<>>,
                                       mensaje |-> "No se encontraron hoteles activos."])
                          ELSE LET nodes == result_node.recs
                                   built == [i \in 1..Len(nodes) |-> wsHotel_hotel(nodes[i])]
                                   \* a node whose decoding raises is logged and skipped
                                   hoteles == SelectSeq(built, NotRaised)
                               IN  IF hoteles = <<>>
                                   THEN PyDict([exito |-> TRUE, hoteles |-> <<>>,
                                                mensaje |-> "No hay hoteles registrados o activos."])
                                   ELSE PyDict([exito |-> TRUE, hoteles |-> hoteles,
                                                mensaje |-> "Hoteles obtenidos correctamente."])

wsHotel_buscarHotelPorNombre_try(nombre, r) ==
    IF ~Truthy(nombre) \/ nombre.k # "str"
    THEN PyDict([error |-> "El parámetro 'nombre' es obligatorio y debe ser una cadena de texto."])
    ELSE LET response == post(r)
         IN  IF IsRaise(response) THEN response
             ELSE IF response.status # 200 THEN HttpError(response)
             ELSE LET root == fromstring(response.body)
                  IN  IF IsRaise(root) THEN root
                      ELSE LET result_node == find(root)
                           IN  IF result_node.k = "none"
                               THEN PyDict([exito |-> FALSE, hoteles |-> <<>>,
                                            mensaje |-> "No se encontraron coincidencias."])
                               ELSE LET nodes == result_node.recs
                                        built == [i \in 1..Len(nodes) |-> wsHotel_hotel(nodes[i])]
                                        raised == FirstRaise(built)
                                        \* if hotel["Id"] > 0: hoteles.append(hotel)
                                        IdPositive(h) == h.v.Id.v > 0
                                        hoteles == SelectSeq(built, IdPositive)
                                    IN  IF IsRaise(raised) THEN raised
                                        ELSE IF hoteles = <<>>
                                        THEN PyDict([exito |-> TRUE, hoteles |-> <<>>,
                                                     mensaje |-> "No se encontraron hoteles con ese nombre."])
                                        ELSE PyDict([exito |-> TRUE, hoteles |-> hoteles,
                                                     mensaje |-> "Hoteles encontrados correctamente."])

\* The same without .lower(): str(True) is "True".
wsHotel_es_activo_str(hotel) == str(get(hotel, "EsActivo", PyBool(TRUE)))

\* es_activo = str(hotel.get("EsActivo", True)).lower()
wsHotel_es_activo(hotel) == Lower(str(get(hotel, "EsActivo", PyBool(TRUE))))

\* "Id" not in hotel or not isinstance(hotel["Id"], int) or hotel["Id"] <= 0, or
\* "Nombre" not in hotel or not hotel["Nombre"]
\* The request is built and posted before the arguments are looked at.
wsHotel_actualizarHotel_post_first(hotel) == FALSE

wsHotel_actualizarHotel_invalid(hotel) ==
    \/ ~IsPositiveInt(hotel.Id)
    \/ hotel.Nombre.k = "missing"
    \/ ~Truthy(hotel.Nombre)

wsHotel_actualizarHotel_try(hotel, r) ==
    IF ~IsPositiveInt(hotel.Id)
    THEN PyDict([error |-> "El campo 'Id' del hotel es obligatorio y debe ser un número entero válido."])
    ELSE IF hotel.Nombre.k = "missing" \/ ~Truthy(hotel.Nombre)
    THEN PyDict([error |-> "El campo 'Nombre' es obligatorio para actualizar un hotel."])
    ELSE LET response == post(r)
         IN  IF IsRaise(response) THEN response
             ELSE IF response.status # 200 THEN HttpError(response)
             ELSE LET root == fromstring(response.body)
                  IN  IF IsRaise(root) THEN root
                      ELSE LET result_node == find(root)
                           IN  IF result_node.k = "none"
                               THEN PyDict([exito |-> FALSE,
                                            mensaje |-> "No se pudo determinar si la actualización fue exitosa."])
                               ELSE LET stripped == strip(result_node.text)
                                    IN  IF IsRaise(stripped) THEN stripped
                                        ELSE IF Lower(stripped.v) = T_true
                                        THEN PyDict([exito |-> TRUE,
                                                     mensaje |-> "Hotel '{hotel['Nombre']}' actualizado exitosamente."])
                                        ELSE PyDict([exito |-> FALSE,
                                                     mensaje |-> "No se pudo actualizar el hotel."])

wsHotel_insertarHotel_try(hotel, r) ==
    IF ~Truthy(get(hotel, "Nombre", PyNone))
    THEN PyDict([error |-> "El campo 'Nombre' del hotel es obligatorio."])
    ELSE LET response == post(r)
         IN  IF IsRaise(response) THEN response
             ELSE IF response.status # 200 THEN HttpError(response)
             ELSE LET root == fromstring(response.body)
                  IN  IF IsRaise(root) THEN root
                      ELSE LET result_node == find(root)
                           IN  IF result_node.k = "none"
                               THEN PyDict([exito |-> FALSE, id_hotel |-> PyNone,
                                            mensaje |-> "No se pudo obtener el ID del hotel insertado."])
                               ELSE LET stripped == strip(result_node.text)
                                        nuevo_id == IF IsRaise(stripped) THEN stripped
                                                    ELSE int(stripped)
                                    IN  IF IsRaise(nuevo_id) THEN nuevo_id
                                        ELSE IF nuevo_id.v > 0
                                        THEN PyDict([exito |-> TRUE, id_hotel |-> nuevo_id,
                                                     mensaje |-> "Hotel '{hotel['Nombre']}' insertado correctamente."])
                                        ELSE PyDict([exito |-> FALSE, id_hotel |-> PyNone,
                                                     mensaje |-> "No se pudo insertar el hotel."])

(* ------------------------------------------------------------------------ *)
(* wsEspXRes                                                                *)
(* ------------------------------------------------------------------------ *)

BaseRelacion ==
    [ReservaId |-> PyInt(5), EsBloqueada |-> PyBool(FALSE), EsActivo |-> PyBool(TRUE)]

Relaciones ==
    {BaseRelacion}
      \cup {[BaseRelacion EXCEPT !.ReservaId = x] : x \in {Missing, PyInt(0)}}
      \cup {[BaseRelacion EXCEPT !.EsBloqueada = x] :
              x \in {PyBool(TRUE), Missing, PyInt(1), PyStr(T_false)}}
      \cup {[BaseRelacion EXCEPT !.EsActivo = x] : x \in EsActivoArgs}

\* def bool_to_str(value): return "true" if value else "false"
bool_to_str(value) == IF Truthy(value) THEN T_true ELSE T_false

\* The texts the f-string puts in the envelope, or the KeyError of
\* nuevaRelacion["ReservaId"].
wsEspXRes_insertarRelacion_soap_body(nuevaRelacion) ==
    LET ReservaId == getitem(nuevaRelacion, "ReservaId")
    IN  IF IsRaise(ReservaId) THEN ReservaId
        ELSE [k |-> "fields",
              ReservaId |-> str(ReservaId),
              EsBloqueada |-> bool_to_str(get(nuevaRelacion, "EsBloqueada", PyBool(FALSE))),
              EsActivo |-> bool_to_str(get(nuevaRelacion, "EsActivo", PyBool(TRUE)))]

wsEspXRes_insertarRelacion_try(nuevaRelacion, r) ==
    LET soap_body == wsEspXRes_insertarRelacion_soap_body(nuevaRelacion)
    IN  IF IsRaise(soap_body) THEN soap_body
        ELSE LET response == post(r)
             IN  IF IsRaise(response) THEN response
                 ELSE IF response.status # 200 THEN HttpError(response)
                 ELSE IF ~HasLiteralTag(response.body)
                 THEN PyDict([exito |-> FALSE, id_relacion |-> PyNone,
                              mensaje |-> "Respuesta SOAP sin resultado válido."])
                 ELSE LET id_str == PyStr(Strip(Between(response.body)))
                          parsed == int(id_str)
                          \* except ValueError: id_insertado = None
                          id_insertado == IF IsRaise(parsed) THEN PyNone ELSE parsed
                      IN  IF Truthy(id_insertado) /\ id_insertado.v > 0
                          THEN PyDict([exito |-> TRUE, id_relacion |-> id_insertado,
                                       mensaje |-> "Relación insertada correctamente con ID {id_insertado}."])
                          ELSE PyDict([exito |-> FALSE, id_relacion |-> PyNone,
                                       mensaje |-> "La operación no devolvió un ID válido."])

\* One RESXESP of seleccionarPorReserva: the timestamps are read with no default.
wsEspXRes_relacion_PorReserva(rel_node) ==
    LET Id == int(findtext(rel_node, "Id", PyStr(<<"0">>)))
    IN  IF IsRaise(Id) THEN Id
        ELSE PyDict(
               [Id |-> Id,
                TokenSesion |-> findtext(rel_node, "Nombre", PyStr(<<>>)),
                FechaRegistro |-> findtext(rel_node, "FechaRegistro", PyNone),
                EsActivo |->
                    PyBool(Lower(findtext(rel_node, "EsActivo", PyStr(T_false)).v) = T_true)])

wsEspXRes_seleccionarPorReserva_try(reservaId, r) ==
    IF ~IsPositiveInt(reservaId)
    THEN PyDict([error |-> "Debe proporcionar un 'reservaId' válido (entero mayor que 0)."])
    ELSE LET response == post(r)
         IN  IF IsRaise(response) THEN response
             ELSE IF response.status # 200 THEN HttpError(response)
             ELSE LET root == fromstring(response.body)
                  IN  IF IsRaise(root) THEN root
                      ELSE \* root.findall(".//{http://tempuri.org/}RESXESP")
                           LET nodes == findall_descendants(root.recs)
                               built == [i \in 1..Len(nodes) |->
                                           wsEspXRes_relacion_PorReserva(nodes[i])]
                               raised == FirstRaise(built)
                           IN  IF IsRaise(raised) THEN raised
                               ELSE IF built = <<>>
                               THEN PyDict([exito |-> TRUE, relaciones |-> <<>>,
                                            mensaje |-> "No existen relaciones para esta reserva."])
                               ELSE PyDict([exito |-> TRUE, relaciones |-> built,
                                            mensaje |-> "Relaciones obtenidas correctamente."])

\* One RESXESP of seleccionarPorEspacio.
wsEspXRes_relacion_PorEspacio(node) ==
    LET Id == int(findtext(node, "Id", PyStr(<<"0">>)))
    IN  IF IsRaise(Id) THEN Id
        ELSE PyDict(
               [Id |-> Id,
                TokenSesion |-> findtext(node, "Nombre", PyStr(<<>>)),
                FechaRegistro |-> findtext(node, "FechaRegistro", PyStr(<<>>)),
                EsActivo |->
                    PyBool(Lower(findtext(node, "EsActivo", PyStr(T_false)).v) = T_true)])

wsEspXRes_seleccionarPorEspacio_try(espacioId, r) ==
    IF ~IsPositiveInt(espacioId)
    THEN PyDict([error |-> "Debe proporcionar un 'espacioId' válido (entero mayor que 0)."])
    ELSE LET response == post(r)
         IN  IF IsRaise(response) THEN response
             ELSE IF response.status # 200 THEN HttpError(response)
             ELSE LET root == fromstring(response.body)
                  IN  IF IsRaise(root) THEN root
                      ELSE \* root.findall(".//tem:seleccionarPorEspacioResult/tem:RESXESP", ns)
                           LET result_nodes == IF root.node = "absent" THEN <<>> ELSE root.recs
                               built == [i \in 1..Len(result_nodes) |->
                                           wsEspXRes_relacion_PorEspacio(result_nodes[i])]
                               raised == FirstRaise(built)
                           IN  IF result_nodes = <<>>
                               THEN PyDict([exito |-> FALSE, relaciones |-> <<>>,
                                            mensaje |-> "No se encontraron relaciones para el espacio indicado."])
                               ELSE IF IsRaise(raised) THEN raised
                               ELSE PyDict([exito |-> TRUE, relaciones |-> built,
                                            mensaje |-> "Relaciones obtenidas correctamente."])

wsEspXRes_espacioDisponible_try(espacioId, fechaInicio, r) ==
    IF ~IsPositiveInt(espacioId)
    THEN PyDict([error |-> "Debe proporcionar un 'espacioId' válido (entero mayor que 0)."])
    ELSE IF ~Truthy(fechaInicio)
    THEN PyDict([error |-> "Debe proporcionar 'fechaInicio' y 'fechaFin' válidas."])
    ELSE LET response == post(r)
         IN  IF IsRaise(response) THEN response
             ELSE IF response.status # 200 THEN HttpError(response)
             ELSE IF ~HasLiteralTag(response.body)
             THEN PyDict([exito |-> FALSE, disponible |-> PyNone,
                          mensaje |-> "Respuesta inválida del servicio."])
             ELSE LET result_str == Lower(Strip(Between(response.body)))
                      disponible == result_str = T_true
                  IN  PyDict([exito |-> TRUE, disponible |-> PyBool(disponible),
                              mensaje |-> IF disponible
                                          THEN "El espacio está disponible para las fechas indicadas."
                                          ELSE "El espacio NO está disponible en el rango de fechas especificado."])

\* actualizarPuntuacion with the test of the range left out.
wsEspXRes_actualizarPuntuacion_unranged(idRelacion, puntuacion) ==
    IF ~IsPositiveInt(idRelacion)
    THEN PyDict([error |-> "Debe proporcionar un 'idRelacion' válido (entero mayor que 0)."])
    ELSE IF puntuacion.k \notin {"int", "bool"}
    THEN PyDict([error |-> "La 'puntuacion' debe ser un número entero entre 0 y 5."])
    ELSE PyNone

\* The validation of actualizarPuntuacion: the error it returns before any
\* request, or None when both arguments pass. isinstance(x, int) holds of a
\* bool too, which compares as 0 or 1.
wsEspXRes_actualizarPuntuacion_invalid(idRelacion, puntuacion) ==
    LET value == IF puntuacion.k = "bool" THEN (IF puntuacion.v THEN 1 ELSE 0)
                 ELSE puntuacion.v
    IN  IF ~IsPositiveInt(idRelacion)
        THEN PyDict([error |-> "Debe proporcionar un 'idRelacion' válido (entero mayor que 0)."])
        ELSE IF puntuacion.k \notin {"int", "bool"} \/ ~(0 <= value /\ value <= 5)
        THEN PyDict([error |-> "La 'puntuacion' debe ser un número entero entre 0 y 5."])
        ELSE PyNone

wsEspXRes_actualizarPuntuacion_try(idRelacion, puntuacion, r) ==
    LET invalid == wsEspXRes_actualizarPuntuacion_invalid(idRelacion, puntuacion)
    IN  IF invalid # PyNone THEN invalid
        ELSE LET response == post(r)
             IN  IF IsRaise(response) THEN response
                 ELSE IF response.status # 200 THEN HttpError(response)
                 ELSE IF ~HasLiteralTag(response.body)
                 THEN PyDict([exito |-> FALSE, actualizado |-> PyNone,
                              mensaje |-> "Respuesta inválida del servicio."])
                 ELSE LET result_str == Lower(Strip(Between(response.body)))
                          actualizado == result_str = T_true
                      IN  PyDict([exito |-> TRUE, actualizado |-> PyBool(actualizado),
                                  mensaje |-> IF actualizado
                                              THEN "Puntuación actualizada correctamente ({puntuacion} estrellas) para relación ID {idRelacion}."
                                              ELSE "No se pudo actualizar la puntuación para la relación ID {idRelacion}."])

(* ------------------------------------------------------------------------ *)
(* wsUsuarios                                                               *)
(* ------------------------------------------------------------------------ *)

wsUsuarios_actualizarUsuario_soap_body(usuario) ==
    [k |-> "fields",
     Id |-> str(get(usuario, "Id", PyInt(0))),
     Nombre |-> str(get(usuario, "Nombre", PyStr(<<>>))),
     FechaRegistro |-> str(get(usuario, "FechaRegistro", PyStr(<<>>))),
     EsActivo |-> Lower(str(get(usuario, "EsActivo", PyBool(TRUE))))]

wsUsuarios_actualizarUsuario_try(usuario, r) ==
    LET response == post(r)
    IN  IF IsRaise(response) THEN response
        ELSE IF response.status # 200 THEN HttpError(response)
        ELSE LET root == fromstring(response.body)
             IN  IF IsRaise(root) THEN root
                 ELSE LET result_node == find(root)
                      IN  IF result_node.k = "none"
                          THEN PyDict([error |-> "Respuesta SOAP inválida o sin nodo actualizarUsuarioResult."])
                          ELSE LET stripped == strip(result_node.text)
                               IN  IF IsRaise(stripped) THEN stripped
                                   ELSE LET actualizado == Lower(stripped.v) = T_true
                                        IN  PyDict([actualizado |-> actualizado,
                                                    mensaje |-> IF actualizado
                                                                THEN "Usuario actualizado correctamente"
                                                                ELSE "No se pudo actualizar el usuario"])

\* def get_text(tag, default=""): text = result_node.findtext(tag, default, ns);
\* return text.strip() if text else default
wsUsuarios_get_text(node, tag, default) ==
    LET text == findtext(node, tag, default)
    IN  IF Truthy(text) THEN PyStr(Strip(text.v)) ELSE default

wsUsuarios_seleccionarPorId_try(usuario_id, r) ==
    LET response == post(r)
    IN  IF IsRaise(response) THEN response
        ELSE IF response.status # 200 THEN HttpError(response)
        ELSE LET root == fromstring(response.body)
             IN  IF IsRaise(root) THEN root
                 ELSE LET result_node == find(root)
                      IN  IF result_node.k = "none"
                          THEN PyDict([error |-> "No se encontró ningún usuario con ID {usuario_id}."])
                          ELSE LET leaves == Leaves(result_node)
                                   Id == int(wsUsuarios_get_text(leaves, "Id", PyStr(<<"0">>)))
                               IN  IF IsRaise(Id) THEN Id
                                   ELSE PyDict(
                                          [Id |-> Id,
                                           Nombre |-> wsUsuarios_get_text(leaves, "Nombre", PyStr(<<>>)),
                                           FechaRegistro |->
                                               wsUsuarios_get_text(leaves, "FechaRegistro", PyStr(<<>>)),
                                           EsActivo |->
                                               PyBool(Lower(wsUsuarios_get_text(
                                                              leaves, "EsActivo", PyStr(T_false)).v)
                                                        = T_true)])

wsUsuarios_iniciarSesion_try(email, password, r) ==
    LET response == post(r)
    IN  IF IsRaise(response) THEN response
        ELSE IF response.status # 200 THEN HttpError(response)
        ELSE LET root == fromstring(response.body)
             IN  IF IsRaise(root) THEN root
                 ELSE LET result_node == find(root)
                      IN  IF result_node.k = "none"
                          THEN PyDict([error |-> "Credenciales inválidas o usuario no encontrado."])
                          ELSE LET leaves == Leaves(result_node)
                                   Id == int(wsUsuarios_get_text(leaves, "Id", PyStr(<<"0">>)))
                               IN  IF IsRaise(Id) THEN Id
                                   ELSE PyDict(
                                          [Id |-> Id,
                                           Nombre |-> wsUsuarios_get_text(leaves, "Nombre", PyStr(<<>>)),
                                           FechaRegistro |->
                                               wsUsuarios_get_text(leaves, "FechaRegistro", PyStr(<<>>)),
                                           EsActivo |->
                                               PyBool(Lower(wsUsuarios_get_text(
                                                              leaves, "EsActivo", PyStr(T_false)).v)
                                                        = T_true)])

wsUsuarios_insertarUsuario_soap_body(usuario) ==
    [k |-> "fields",
     Id |-> str(get(usuario, "Id", PyInt(0))),
     Nombre |-> str(get(usuario, "Nombre", PyStr(<<>>))),
     FechaRegistro |-> str(get(usuario, "FechaRegistro", PyStr(<<>>))),
     EsActivo |-> Lower(str(get(usuario, "EsActivo", PyBool(TRUE))))]

wsUsuarios_insertarUsuario_try(usuario, r) ==
    LET response == post(r)
    IN  IF IsRaise(response) THEN response
        ELSE IF response.status # 200 THEN HttpError(response)
        ELSE LET root == fromstring(response.body)
             IN  IF IsRaise(root) THEN root
                 ELSE LET result_node == find(root)
                      IN  IF result_node.k = "none"
                          THEN PyDict([error |-> "Respuesta SOAP inválida o sin nodo insertarUsuarioResult."])
                          ELSE LET nuevo_id_text == IF Truthy(result_node.text)
                                                    THEN Strip(result_node.text.v)
                                                    ELSE <<"0">>
                                   nuevo_id == IF IsDigitText(nuevo_id_text)
                                               THEN NatOf(nuevo_id_text) ELSE 0
                               IN  PyDict([insertado |-> nuevo_id > 0,
                                           nuevoId |-> PyInt(nuevo_id),
                                           mensaje |-> IF nuevo_id > 0
                                                       THEN "Usuario insertado correctamente con ID {nuevo_id}"
                                                       ELSE "No se pudo insertar el usuario"])

(* ------------------------------------------------------------------------ *)
(* wsTipoAlimentacion                                                       *)
(* ------------------------------------------------------------------------ *)

\* timeout=15 of the three select operations of wsTipoAlimentacion
TIMEOUT_ALIMENTACION == 15

wsTipoAlimentacion_tipoData(tipo) ==
    [id |-> find_text_or_None(tipo, "Id"),
     nombre |-> find_text_or_None(tipo, "Nombre"),
     fechaRegistro |-> find_text_or_None(tipo, "FechaRegistro"),
     esActivo |-> find_text_or_None(tipo, "EsActivo")]

wsTipoAlimentacion_seleccionarInactivos_try(r) ==
    LET response == post(r)
    IN  IF IsRaise(response) THEN response
        ELSE IF response.status # 200 THEN PyList(<<>>)
        ELSE LET root == fromstring(response.body)
             IN  \* except ET.ParseError: return []
                 IF IsRaise(root) THEN PyList(<<>>)
                 ELSE \* root.findall('.//t:TipoAlimentacion', ns)
                      LET tipos == findall_descendants(root.recs)
                      IN  PyList([i \in 1..Len(tipos) |->
                                     PyDict(wsTipoAlimentacion_tipoData(tipos[i]))])

(* except requests.exceptions.RequestException: return []  /  except Exception: return [] *)
wsTipoAlimentacion_seleccionarInactivos_except(r) ==
    IF IsRaise(r) THEN PyList(<<>>) ELSE r

wsTipoAlimentacion_seleccionarPorId_try(id, r) ==
    LET response == post(r)
    IN  IF IsRaise(response) THEN response
        ELSE IF response.status # 200 THEN PyNone
        ELSE LET root == fromstring(response.body)
             IN  \* except ET.ParseError: return None
                 IF IsRaise(root) THEN PyNone
                 ELSE LET result == find(root)
                      IN  IF result.k = "none" THEN PyNone
                          ELSE PyDict(wsTipoAlimentacion_tipoData(Leaves(result)))

(* except requests.exceptions.RequestException: return None  /  except Exception: return None *)
wsTipoAlimentacion_seleccionarPorId_except(r) ==
    IF IsRaise(r) THEN PyNone ELSE r

(* ------------------------------------------------------------------------ *)
(* wsEspacios                                                               *)
(* ------------------------------------------------------------------------ *)

\* def safe_text(value): return value.strip() if value else ""
wsEspacios_safe_text(value) ==
    IF Truthy(value) THEN PyStr(Strip(value.v)) ELSE PyStr(<<>>)

\* def safe_bool(value): return str(value).strip().lower() == "true"
wsEspacios_safe_bool(value) == PyBool(Lower(Strip(str(value))) = T_true)

wsEspacios_espacio(nodo) ==
    PyDict(
      [Id |-> wsEspacios_safe_text(findtext(nodo, "Id", PyStr(<<>>))),
       Nombre |-> wsEspacios_safe_text(findtext(nodo, "Nombre", PyStr(<<>>))),
       FechaRegistro |-> wsEspacios_safe_text(findtext(nodo, "FechaRegistro", PyStr(<<>>))),
       EsActivo |-> wsEspacios_safe_bool(findtext(nodo, "EsActivo", PyStr(T_false)))])

wsEspacios_seleccionarEspacios_try(r) ==
    LET response == post(r)
    IN  IF IsRaise(response) THEN response
        ELSE IF response.status # 200
        THEN PyDict([exito |-> FALSE,
                     mensaje |-> "Error HTTP " \o ToString(response.status)])
        ELSE LET root == fromstring(response.body)
             IN  IF IsRaise(root) THEN root
                 ELSE LET result_node == find(root)
                      IN  IF result_node.k = "none"
                          THEN PyDict([exito |-> FALSE,
                                       mensaje |-> "No se encontraron espacios."])
                          ELSE LET nodes == result_node.recs
                                   espacios == [i \in 1..Len(nodes) |-> wsEspacios_espacio(nodes[i])]
                               IN  IF espacios = <<>>
                                   THEN PyDict([exito |-> TRUE,
                                                mensaje |-> "No se encontraron espacios activos.",
                                                espacios |-> <<>>])
                                   ELSE PyDict([exito |-> TRUE,
                                                mensaje |-> "Se encontraron "
                                                              \o ToString(Len(espacios))
                                                              \o " espacio(s) activo(s).",
                                                espacios |-> espacios])

(* except Exception as ex: return {"exito": False, "mensaje": f"Error al consultar los espacios: {ex}"} *)
wsEspacios_seleccionarEspacios_except(r) ==
    IF IsRaise(r)
    THEN PyDict([exito |-> FALSE,
                 mensaje |-> "Error al consultar los espacios: " \o r.v.msg])
    ELSE r

\* zeep: Client(WSDL_URL) fetches the WSDL and client.service.<op>(...) posts
\* the call; a transport failure, a status other than 200 and an unreadable
\* body are raised as exceptions, and an xsd:boolean result is True for the
\* texts "true" and "1".
zeep_service_call(r) ==
    IF r.k = "fail" THEN Raise(r.cause.type, r.cause.msg)
    ELSE IF r.status # 200
    THEN Raise("TransportError", "Server returned HTTP status " \o ToString(r.status))
    ELSE IF ~r.body.wf THEN Raise("XMLSyntaxError", "Invalid XML content received")
    ELSE IF r.body.node = "absent" \/ r.body.text.k = "none" THEN PyNone
    ELSE PyBool(r.body.text.v \in {T_true, <<"1">>})

wsEspacios_eliminarEspacio_try(id_espacio, r) ==
    LET resultado == zeep_service_call(r)
    IN  IF IsRaise(resultado) THEN resultado
        ELSE IF resultado = PyBool(TRUE)
        THEN PyDict([exito |-> TRUE,
                     mensaje |-> "Espacio con ID {id_espacio} eliminado (soft delete) correctamente."])
        ELSE PyDict([exito |-> FALSE,
                     mensaje |-> "No se pudo eliminar el espacio con ID {id_espacio}. El servicio retornó False."])

(* except Exception as ex: return {"exito": False, "mensaje": f"Error al eliminar el espacio: {ex}"} *)
wsEspacios_eliminarEspacio_except(r) ==
    IF IsRaise(r)
    THEN PyDict([exito |-> FALSE,
                 mensaje |-> "Error al eliminar el espacio: " \o r.v.msg])
    ELSE r

\* def safe_str(value, default=""):
\*     return str(value).strip() if value is not None else default
wsEspacios_safe_str(value) ==
    IF value.k = "none" THEN <<>> ELSE Strip(str(value))

\* def safe_int(value, default=0): the default for None, a blank text and
\* whatever int() refuses.
wsEspacios_safe_int(value) ==
    CASE value.k = "none" -> <<"0">>
      [] value.k = "int" -> str(value)
      [] value.k = "bool" -> IF value.v THEN <<"1">> ELSE <<"0">>
      [] value.k = "str" -> IF IsRaise(int(value)) THEN <<"0">> ELSE str(int(value))

\* The texts the f-string of actualizarEspacio puts in the envelope;
\* fecha_actual is datetime.now().isoformat().
wsEspacios_actualizarEspacio_soap_body(espacio_editado, fecha_actual) ==
    [k |-> "fields",
     Id |-> wsEspacios_safe_int(get(espacio_editado, "Id", PyNone)),
     Nombre |-> wsEspacios_safe_str(get(espacio_editado, "Nombre", PyNone)),
     FechaRegistro |-> wsEspacios_safe_str(get(espacio_editado, "FechaRegistro", fecha_actual)),
     EsActivo |-> Lower(str(get(espacio_editado, "EsActivo", PyBool(TRUE))))]

wsEspacios_actualizarEspacio_try(espacio_editado, r) ==
    LET response == post(r)
    IN  IF IsRaise(response) THEN response
        ELSE IF response.status # 200 THEN HttpError(response)
        ELSE LET root == fromstring(response.body)
             IN  IF IsRaise(root) THEN root
                 ELSE LET result_node == find(root)
                      IN  IF result_node.k = "none"
                          THEN PyDict([exito |-> FALSE,
                                       mensaje |-> "No se recibió confirmación del servicio."])
                          ELSE IF Lower(Strip(str(result_node.text))) = T_true
                          THEN PyDict([exito |-> TRUE,
                                       mensaje |-> "Espacio con ID {espacio_editado.get('Id')} actualizado correctamente."])
                          ELSE PyDict([exito |-> FALSE,
                                       mensaje |-> "No se pudo actualizar el espacio con ID {espacio_editado.get('Id')}."])

\* The timeout zeep's default transport gives the download of the WSDL; the
\* operation itself is given none.
ZEEP_LOAD_TIMEOUT == 300

\* The requests of Client(WSDL_URL) and client.service.<op>(...): the download
\* of the WSDL, then the call itself when the download did not fail.
zeep_requests(r, op, fields) ==
    LET wsdl == [service |-> "WS_GestionEspacios", op |-> "?WSDL", fields |-> NoFields,
                 timeout |-> PyInt(ZEEP_LOAD_TIMEOUT)]
    IN  IF r.k = "fail" THEN <<wsdl>>
        ELSE <<wsdl,
               [service |-> "WS_GestionEspacios", op |-> op, fields |-> fields,
                timeout |-> PyNone]>>

(* ------------------------------------------------------------------------ *)
(* wsIntegracionDetalleServicios                                            *)
(* ------------------------------------------------------------------------ *)

\* One DTO_WS_IntegracionDetalleEspacio of seleccionarEspaciosDetalladosPorPaginas.
wsIntegracion_dato(item) ==
    LET Id == int(findtext(item, "Id", PyStr(<<"0">>)))
    IN  IF IsRaise(Id) THEN Id
        ELSE PyDict(
               [Id |-> Id,
                Nombre |-> findtext(item, "Nombre", PyStr(<<>>)),
                EsActivo |->
                    PyBool(Lower(findtext(item, "EsActivo", PyStr(T_false)).v) = T_true)])

wsIntegracion_seleccionarEspaciosDetalladosPorPaginas_try(pagina, r) ==
    LET response == post(r)
    IN  IF IsRaise(response) THEN response
        ELSE IF response.status # 200
        THEN PyDict([error |-> "HTTP " \o ToString(response.status) \o ": "
                                  \o Xml(response.body)])
        ELSE LET root == fromstring(response.body)
             IN  IF IsRaise(root) THEN root
                 ELSE LET result_node == find(root)
                      IN  IF result_node.k = "none"
                          THEN PyDict([error |-> "No se encontró el nodo seleccionarEspaciosDetalladosPorPaginasResult."])
                          ELSE LET items == findall_descendants(result_node.recs)
                                   built == [i \in 1..Len(items) |-> wsIntegracion_dato(items[i])]
                                   raised == FirstRaise(built)
                               IN  IF IsRaise(raised) THEN raised
                                   ELSE PyDict(
                                          \* the bodies of the model have no paging
                                          \* leaves: findtext gives the default "0"
                                          [PaginaActual |-> int(PyStr(<<"0">>)),
                                           TotalRegistros |-> int(PyStr(<<"0">>)),
                                           Datos |-> built])

\* def safe_int(value, default=0): try: return int(value)
\* except (TypeError, ValueError): return default
wsIntegracion_safe_int(value) ==
    LET n == int(value) IN IF IsRaise(n) THEN PyInt(0) ELSE n

\* def safe_bool(value): return str(value).strip().lower() in ("true", "1", "yes")
wsIntegracion_safe_bool(value) ==
    PyBool(Lower(Strip(str(value))) \in {T_true, <<"1">>, T_yes})

\* def get_text(tag, default=""): the stripped text, or the default when the
\* element is missing or empty.
wsIntegracion_get_text(node, tag) ==
    LET text == findtext(node, tag, PyStr(<<>>))
    IN  IF Truthy(text) THEN PyStr(Strip(text.v)) ELSE PyStr(<<>>)

wsIntegracion_cotizarReserva_try(espacioId, checkIn, r) ==
    IF ~Truthy(espacioId) \/ ~Truthy(checkIn)
    THEN PyDict([error |-> "Debe proporcionar espacioId, checkIn y checkOut válidos."])
    ELSE LET response == post(r)
         IN  IF IsRaise(response) THEN response
             ELSE IF response.status # 200 THEN HttpError(response)
             ELSE LET root == fromstring(response.body)
                  IN  IF IsRaise(root) THEN root
                      ELSE LET result_node == find(root)
                           IN  IF result_node.k = "none"
                               THEN PyDict([error |-> "Respuesta SOAP inválida o sin nodo cotizarReservaResult."])
                               ELSE LET leaves == Leaves(result_node)
                                    IN  PyDict(
                                          [EspacioId |-> wsIntegracion_safe_int(
                                                             wsIntegracion_get_text(leaves, "Id")),
                                           RoomType |-> wsIntegracion_get_text(leaves, "Nombre"),
                                           CheckIn |-> wsIntegracion_get_text(leaves, "FechaRegistro"),
                                           BreakfastIncluded |-> wsIntegracion_safe_bool(
                                                             wsIntegracion_get_text(leaves, "EsActivo"))])

wsIntegracion_espacio(e) ==
    PyDict([Id |-> wsIntegracion_safe_int(wsIntegracion_get_text(e, "Id")),
            Nombre |-> wsIntegracion_get_text(e, "Nombre"),
            EsActivo |-> wsIntegracion_safe_bool(wsIntegracion_get_text(e, "EsActivo"))])

\* The elements appended to xml_fields.
wsIntegracion_buscarServicios_xml_fields(ubicacion, puntuacion) ==
    (IF Truthy(ubicacion) THEN <<[tag |-> "ubicacion", text |-> str(ubicacion)]>> ELSE <<>>)
      \o (IF puntuacion.k # "none"
          THEN <<[tag |-> "puntuacion", text |-> str(puntuacion)]>> ELSE <<>>)

wsIntegracion_buscarServicios_try(ubicacion, puntuacion, r) ==
    IF ~(Truthy(ubicacion) \/ Truthy(puntuacion))
    THEN PyDict([error |-> "Debe proporcionar al menos un criterio de búsqueda."])
    ELSE LET response == post(r)
         IN  IF IsRaise(response) THEN response
             ELSE IF response.status # 200 THEN HttpError(response)
             ELSE LET root == fromstring(response.body)
                  IN  IF IsRaise(root) THEN root
                      ELSE LET result_node == find(root)
                           IN  IF result_node.k = "none"
                               THEN PyDict([error |-> "Respuesta SOAP inválida o sin nodo buscarServiciosResult."])
                               ELSE LET nodes == result_node.recs
                                    IN  PyDict(
                                          [PaginaActual |-> wsIntegracion_safe_int(PyStr(<<>>)),
                                           TotalRegistros |-> wsIntegracion_safe_int(PyStr(<<>>)),
                                           Datos |-> [i \in 1..Len(nodes) |->
                                                        wsIntegracion_espacio(nodes[i])]])

(* ------------------------------------------------------------------------ *)
(* wsAmenidades                                                             *)
(* ------------------------------------------------------------------------ *)

wsAmenidades_amenidad(amenidad_node) ==
    LET Id == int(findtext(amenidad_node, "Id", PyStr(<<"0">>)))
    IN  IF IsRaise(Id) THEN Id
        ELSE PyDict(
               [Id |-> Id,
                Nombre |-> findtext(amenidad_node, "Nombre", PyStr(<<>>)),
                FechaRegistro |-> findtext(amenidad_node, "FechaRegistro", PyStr(<<>>)),
                EsActivo |->
                    PyBool(Lower(findtext(amenidad_node, "EsActivo", PyStr(T_false)).v)
                             = T_true)])

wsAmenidades_seleccionarAmenidades_try(r) ==
    LET response == post(r)
    IN  IF IsRaise(response) THEN response
        ELSE IF response.status # 200 THEN HttpError(response)
        ELSE LET root == fromstring(response.body)
             IN  IF IsRaise(root) THEN root
                 ELSE LET result_node == find(root)
                      IN  IF result_node.k = "none"
                          THEN PyDict([exito |-> FALSE, amenidades |-> <<>>,
                                       mensaje |-> "No se encontraron amenidades activas."])
                          ELSE LET nodes == result_node.recs
                                   built == [i \in 1..Len(nodes) |-> wsAmenidades_amenidad(nodes[i])]
                                   raised == FirstRaise(built)
                                   \* if amenidad["Id"] > 0: amenidades.append(amenidad)
                                   IdPositive(a) == a.v.Id.v > 0
                                   amenidades == SelectSeq(built, IdPositive)
                               IN  IF IsRaise(raised) THEN raised
                                   ELSE IF amenidades = <<>>
                                   THEN PyDict([exito |-> TRUE, amenidades |-> <<>>,
                                                mensaje |-> "No existen amenidades activas."])
                                   ELSE PyDict([exito |-> TRUE, amenidades |-> amenidades,
                                                mensaje |-> "Amenidades obtenidas correctamente."])

(* ------------------------------------------------------------------------ *)
(* wsReservas                                                               *)
(* ------------------------------------------------------------------------ *)

wsReservas_reserva_bloqueada(nodo) ==
    LET Id == int(findtext(nodo, "Id", PyStr(<<"0">>)))
    IN  IF IsRaise(Id) THEN Id
        ELSE PyDict(
               [Id |-> Id,
                Estado |-> findtext(nodo, "Nombre", PyStr(<<>>)),
                FechaRegistro |-> findtext(nodo, "FechaRegistro", PyStr(<<>>)),
                EsActivo |->
                    PyBool(Lower(findtext(nodo, "EsActivo", PyStr(T_false)).v) = T_true)])

wsReservas_obtenerReservasBloqueadas_try(r) ==
    LET response == post(r)
    IN  IF IsRaise(response) THEN response
        ELSE IF response.status # 200 THEN HttpError(response)
        ELSE LET root == fromstring(response.body)
             IN  IF IsRaise(root) THEN root
                 ELSE LET result_node == find(root)
                      IN  IF result_node.k = "none"
                          THEN PyDict([reservas |-> <<>>, total |-> 0,
                                       mensaje |-> "No se encontraron reservas bloqueadas."])
                          ELSE LET nodes == result_node.recs
                                   reservas == [i \in 1..Len(nodes) |->
                                                  wsReservas_reserva_bloqueada(nodes[i])]
                                   raised == FirstRaise(reservas)
                               IN  IF IsRaise(raised) THEN raised
                                   ELSE PyDict([reservas |-> reservas, total |-> len(reservas),
                                                mensaje |-> "Se encontraron " \o ToString(Len(reservas))
                                                              \o " reservas bloqueadas."])

(* ------------------------------------------------------------------------ *)
(* wsPagos                                                                  *)
(* ------------------------------------------------------------------------ *)

\* def _bool_str(v): return "true" if bool(v) else "false"
wsPagos_bool_str(v) == IF Truthy(v) THEN T_true ELSE T_false

wsPagos_actualizarPago_soap_body(pago) ==
    [k |-> "fields",
     Id |-> str(get(pago, "Id", PyInt(0))),
     Estado |-> str(get(pago, "Nombre", PyStr(<<>>))),
     FechaRegistro |-> str(get(pago, "FechaRegistro", PyStr(<<>>))),
     EsActivo |-> wsPagos_bool_str(get(pago, "EsActivo", PyBool(TRUE)))]

wsPagos_actualizarPago_try(pago, r) ==
    LET response == post(r)
    IN  IF IsRaise(response) THEN response
        ELSE IF response.status # 200 THEN HttpError(response)
        ELSE LET root == fromstring(response.body)
             IN  IF IsRaise(root) THEN root
                 ELSE LET result_node == find(root)
                      IN  IF result_node.k = "none"
                          THEN PyDict([actualizado |-> FALSE,
                                       mensaje |-> "No se pudo confirmar la actualización del pago."])
                          ELSE \* (result_node.text or "").strip().lower() == "true"
                               LET text == IF Truthy(result_node.text)
                                           THEN result_node.text.v ELSE <<>>
                               IN  IF Lower(Strip(text)) = T_true
                                   THEN PyDict([actualizado |-> TRUE,
                                                mensaje |-> "Pago actualizado correctamente."])
                                   ELSE PyDict([actualizado |-> FALSE,
                                                mensaje |-> "El servicio no confirmó la actualización del pago."])

wsPagos_pago(pago_node) ==
    LET Id == int(findtext(pago_node, "Id", PyStr(<<"0">>)))
    IN  IF IsRaise(Id) THEN Id
        ELSE PyDict(
               [Id |-> Id,
                Estado |-> findtext(pago_node, "Nombre", PyStr(<<>>)),
                FechaRegistro |-> findtext(pago_node, "FechaRegistro", PyStr(<<>>)),
                EsActivo |->
                    PyBool(Lower(findtext(pago_node, "EsActivo", PyStr(T_false)).v) = T_true)])

wsPagos_seleccionarPagos_try(r) ==
    LET response == post(r)
    IN  IF IsRaise(response) THEN response
        ELSE IF response.status # 200 THEN HttpError(response)
        ELSE LET root == fromstring(response.body)
             IN  IF IsRaise(root) THEN root
                 ELSE \* root.findall(".//tem:Pagos", ns)
                      LET pagos_nodes == findall_descendants(root.recs)
                          pagos == [i \in 1..Len(pagos_nodes) |-> wsPagos_pago(pagos_nodes[i])]
                          raised == FirstRaise(pagos)
                      IN  IF IsRaise(raised) THEN raised
                          ELSE PyDict([pagos |-> pagos, total |-> len(pagos),
                                       mensaje |-> "Se encontraron " \o ToString(Len(pagos))
                                                     \o " pagos activos."])

(* ------------------------------------------------------------------------ *)
(* wsPoliticas                                                              *)
(* ------------------------------------------------------------------------ *)

wsPoliticas_seleccionarPoliticas_try(r) ==
    LET response == post(r)
    IN  IF IsRaise(response) THEN response
        ELSE IF response.status # 200 THEN HttpError(response)
        ELSE LET root == fromstring(response.body)
             IN  IF IsRaise(root) THEN root
                 ELSE LET result_node == find(root)
                          politicas_nodes ==
                              IF result_node.k = "none" THEN <<>> ELSE result_node.recs
                          politica(node) ==
                              LET Id == int(findtext(node, "Id", PyStr(<<"0">>)))
                              IN  IF IsRaise(Id) THEN Id
                                  ELSE PyDict(
                                         [Id |-> Id,
                                          DescripcionPolitica |->
                                              findtext(node, "Nombre", PyStr(<<>>)),
                                          FechaRegistro |->
                                              findtext(node, "FechaRegistro", PyStr(<<>>)),
                                          EsActivo |->
                                              PyBool(Lower(findtext(node, "EsActivo",
                                                                    PyStr(T_false)).v)
                                                       = T_true)])
                          politicas ==
                              [i \in 1..Len(politicas_nodes) |-> politica(politicas_nodes[i])]
                      IN  IF politicas_nodes = <<>>
                          THEN PyDict([exito |-> TRUE, politicas |-> <<>>,
                                       mensaje |-> "No se encontraron políticas activas."])
                          ELSE IF IsRaise(FirstRaise(politicas)) THEN FirstRaise(politicas)
                          ELSE PyDict([exito |-> TRUE, politicas |-> politicas,
                                       mensaje |-> "Se encontraron {len(politicas)} políticas activas."])

\* insertarPolitica: a politica lacking one of the required keys is refused;
\* the id is read with int(), None standing for a text int() refuses.
wsPoliticas_insertarPolitica_try(politica, r) ==
    IF \E c \in {"Id", "Nombre", "FechaRegistro", "EsActivo"} : politica[c].k = "missing"
    THEN PyDict([error |-> "Faltan campos requeridos: {', '.join(faltantes)}"])
    ELSE LET response == post(r)
         IN  IF IsRaise(response) THEN response
             ELSE IF response.status # 200 THEN HttpError(response)
             ELSE LET root == fromstring(response.body)
                  IN  IF IsRaise(root) THEN root
                      ELSE LET result_node == find(root)
                           IN  IF result_node.k = "none"
                               THEN PyDict([exito |-> FALSE, id_insertado |-> PyNone,
                                            mensaje |-> "No se recibió confirmación del servidor."])
                               ELSE LET stripped == strip(result_node.text)
                                        \* except (TypeError, ValueError): id_insertado = None
                                        id_insertado ==
                                            IF IsRaise(int(stripped)) THEN PyNone
                                            ELSE int(stripped)
                                    IN  IF IsRaise(stripped) THEN stripped
                                        ELSE PyDict([exito |-> TRUE,
                                                     id_insertado |-> id_insertado,
                                                     mensaje |-> IF Truthy(id_insertado)
                                                                 THEN "Política insertada correctamente."
                                                                 ELSE "No se pudo insertar la política."])

wsPoliticas_eliminarPolitica_try(id_politica, r) ==
    IF ~IsPositiveInt(id_politica)
    THEN PyDict([error |-> "El parámetro 'id_politica' debe ser un número entero positivo."])
    ELSE LET response == post(r)
         IN  IF IsRaise(response) THEN response
             ELSE IF response.status # 200 THEN HttpError(response)
             ELSE LET root == fromstring(response.body)
                  IN  IF IsRaise(root) THEN root
                      ELSE LET result_node == find(root)
                           IN  IF result_node.k = "none"
                               THEN PyDict([exito |-> FALSE, resultado |-> PyNone,
                                            mensaje |-> "No se recibió confirmación del servidor."])
                               ELSE LET stripped == strip(result_node.text)
                                    IN  IF IsRaise(stripped) THEN stripped
                                        ELSE IF Lower(stripped.v) = T_true
                                        THEN PyDict([exito |-> TRUE, resultado |-> PyBool(TRUE),
                                                     mensaje |-> "Política eliminada correctamente."])
                                        ELSE PyDict([exito |-> TRUE, resultado |-> PyBool(FALSE),
                                                     mensaje |-> "No se pudo eliminar la política."])

(* ------------------------------------------------------------------------ *)
(* views: the JSON endpoints                                                *)
(* ------------------------------------------------------------------------ *)

\* The body of the JsonResponse of api_seleccionar_politicas, given what
\* seleccionarPoliticas() returned.
views_api_seleccionar_politicas(respuesta) ==
    PyDict([exito |-> TRUE,
            politicas |-> IF "politicas" \in DOMAIN respuesta.v
                          THEN respuesta.v.politicas ELSE <<>>])

\* The body of the JsonResponse of LoginAPIView.post: resultado is what
\* wsUsuarios.iniciarSesion(email, password) returns, called only when both
\* fields of the form are filled in.
views_LoginAPIView_post(email, password, resultado) ==
    IF ~Truthy(email) \/ ~Truthy(password)
    THEN PyDict([success |-> FALSE, error |-> "Por favor completa todos los campos."])
    ELSE IF "error" \in DOMAIN resultado.v
    THEN PyDict([success |-> FALSE, error |-> resultado.v.error])
    ELSE PyDict([success |-> TRUE,
                 usuario |-> PyDict([Id |-> resultado.v.Id, Nombre |-> resultado.v.Nombre])])

\* The filters CargarEspaciosView.get reads from the query string GET, each
\* (request.GET.get(name) or "").strip(), whether it takes them for real
\* filters (neither empty nor a placeholder of the form), and the arguments
\* it gives buscarServicios when it does. The request carries no hotel and
\* no dates, pagina and tamanoPagina have their defaults.
views_CargarEspaciosView_filtros(GET) ==
    LET ubicacion == IF Truthy(GET.ubicacion) THEN Strip(GET.ubicacion.v) ELSE <<>>
        puntuacion == IF Truthy(GET.puntuacion) THEN Strip(GET.puntuacion.v) ELSE <<>>
        null == <<"n", "u", "l", "l">>
    IN  [filtros_validos |->
             \/ ubicacion \notin {<<>>, <<"U", "b", "i", "c", "a", "c", "i", "o", "n", "e", "s">>, null}
             \/ puntuacion \notin {<<>>, null},
         ubicacion |-> IF ubicacion # <<>> THEN PyStr(ubicacion) ELSE PyNone,
         puntuacion |-> IF IsDigitText(puntuacion) THEN PyInt(NatOf(puntuacion)) ELSE PyNone]

\* The body of the JsonResponse of CargarEspaciosView.get: resultado is what
\* buscarServicios or seleccionarEspaciosDetalladosPorPaginas returned.
views_CargarEspaciosView_get(resultado) ==
    IF resultado.k # "dict"
    THEN PyDict([success |-> FALSE, error |-> "Respuesta inesperada del servicio"])
    ELSE IF "error" \in DOMAIN resultado.v
    THEN PyDict([success |-> FALSE, error |-> resultado.v.error])
    ELSE PyDict([success |-> TRUE,
                 datos |-> resultado.v.Datos,
                 total |-> resultado.v.TotalRegistros])

\* The argument api_eliminar_politica gives eliminarPolitica: {"Id": id}.
\* Its response is JsonResponse(resultado), the value returned as it is.
views_api_eliminar_politica(id) == PyDict([Id |-> id])

(* ------------------------------------------------------------------------ *)
(* The adapters together                                                    *)
(* ------------------------------------------------------------------------ *)

\* What each adapter function sends, by name.
\* The requests each adapter function sends, by name: a are its arguments, t
\* is what datetime.now().isoformat() gives it and r is how the remote
\* service behaves.
Requests(f, a, t, r) ==
    CASE f = "wsHotel.seleccionarHoteles" ->
           requests_post(Request("WS_GestionHotel", "seleccionarHoteles", NoFields, TIMEOUT))
      [] f = "wsHotel.buscarHotelPorNombre" ->
           IF ~Truthy(a) \/ a.k # "str" THEN <<>>
             ELSE requests_post(Request("WS_GestionHotel", "buscarHotelPorNombre",
             [k |-> "fields", nombre |-> str(a)], TIMEOUT))
      [] f = "wsHotel.actualizarHotel" ->
           IF wsHotel_actualizarHotel_invalid(a) THEN <<>>
             ELSE requests_post(Request("WS_GestionHotel", "actualizarHotel",
             [k |-> "fields", Id |-> str(a.Id),
             Nombre |-> str(a.Nombre),
             FechaRegistro |-> str(get(a, "FechaRegistro", t)),
             EsActivo |-> wsHotel_es_activo(a)], TIMEOUT))
      [] f = "wsHotel.insertarHotel" ->
           IF ~Truthy(get(a, "Nombre", PyNone)) THEN <<>>
             ELSE requests_post(Request("WS_GestionHotel", "insertarHotel",
             [k |-> "fields", Id |-> str(get(a, "Id", PyInt(0))),
             Nombre |-> str(a.Nombre),
             FechaRegistro |-> str(get(a, "FechaRegistro", t)),
             EsActivo |-> wsHotel_es_activo(a)], TIMEOUT))
      [] f = "wsEspXRes.insertarRelacion" ->
           IF IsRaise(wsEspXRes_insertarRelacion_soap_body(a)) THEN <<>>
             ELSE requests_post(Request("WS_GestionIntermediaEspRes", "insertarRelacion",
             wsEspXRes_insertarRelacion_soap_body(a), TIMEOUT))
      [] f = "wsEspXRes.seleccionarPorReserva" ->
           IF ~IsPositiveInt(a) THEN <<>>
             ELSE requests_post(Request("WS_GestionIntermediaEspRes", "seleccionarPorReserva",
             [k |-> "fields", reservaId |-> str(a)], TIMEOUT))
      [] f = "wsEspXRes.seleccionarPorEspacio" ->
           IF ~IsPositiveInt(a) THEN <<>>
             ELSE requests_post(Request("WS_GestionIntermediaEspRes", "seleccionarPorEspacio",
             [k |-> "fields", espacioId |-> str(a)], TIMEOUT))
      [] f = "wsEspXRes.espacioDisponible" ->
           IF ~IsPositiveInt(a.espacioId) \/ ~Truthy(a.fechaInicio) THEN <<>>
             ELSE requests_post(Request("WS_GestionIntermediaEspRes", "espacioDisponible",
             [k |-> "fields", espacioId |-> str(a.espacioId),
             fechaInicio |-> str(a.fechaInicio)], TIMEOUT))
      [] f = "wsEspXRes.actualizarPuntuacion" ->
           IF wsEspXRes_actualizarPuntuacion_invalid(a.idRelacion, a.puntuacion) # PyNone
             THEN <<>>
             ELSE requests_post(Request("WS_GestionIntermediaEspRes", "actualizarPuntuacion",
             [k |-> "fields", idRelacion |-> str(a.idRelacion),
             puntuacion |-> str(a.puntuacion)], TIMEOUT))
      [] f = "wsUsuarios.actualizarUsuario" ->
           requests_post(Request("WS_GestionUsuarios", "actualizarUsuario",
             wsUsuarios_actualizarUsuario_soap_body(a), TIMEOUT))
      [] f = "wsUsuarios.seleccionarPorId" ->
           requests_post(Request("WS_GestionUsuarios", "seleccionarPorId",
             [k |-> "fields", id |-> str(a)], TIMEOUT))
      [] f = "wsUsuarios.iniciarSesion" ->
           requests_post(Request("WS_GestionUsuarios", "iniciarSesion",
             [k |-> "fields", email |-> str(a.email), password |-> str(a.password)], TIMEOUT))
      [] f = "views.LoginAPIView.post" ->
           IF ~Truthy(a.email) \/ ~Truthy(a.password) THEN <<>>
             ELSE requests_post(Request("WS_GestionUsuarios", "iniciarSesion",
             [k |-> "fields", email |-> str(a.email), password |-> str(a.password)], TIMEOUT))
      [] f = "wsUsuarios.insertarUsuario" ->
           requests_post(Request("WS_GestionUsuarios", "insertarUsuario",
             wsUsuarios_insertarUsuario_soap_body(a), TIMEOUT))
      [] f = "wsTipoAlimentacion.seleccionarInactivos" ->
           requests_post(Request("WS_GestionTipoAlimentacion", "seleccionarInactivos",
             NoFields, TIMEOUT_ALIMENTACION))
      [] f = "wsTipoAlimentacion.seleccionarPorId" ->
           requests_post(Request("WS_GestionTipoAlimentacion", "seleccionarPorId",
             [k |-> "fields", id |-> str(a)], TIMEOUT_ALIMENTACION))
      [] f = "wsEspacios.seleccionarEspacios" ->
           requests_post(Request("WS_GestionEspacios", "seleccionarEspacios", NoFields, TIMEOUT))
      [] f = "wsEspacios.actualizarEspacio" ->
           requests_post(Request("WS_GestionEspacios", "actualizarEspacio",
             wsEspacios_actualizarEspacio_soap_body(a, t), TIMEOUT))
      [] f = "wsEspacios.eliminarEspacio" ->
           zeep_requests(r, "eliminarEspacio", [k |-> "fields", id |-> a])
      [] f = "wsIntegracion.seleccionarEspaciosDetalladosPorPaginas" ->
           requests_post(Request("WS_Integracion", "seleccionarEspaciosDetalladosPorPaginas",
             [k |-> "fields", pagina |-> str(a)], TIMEOUT))
      [] f = "wsIntegracion.cotizarReserva" ->
           IF ~Truthy(a.espacioId) \/ ~Truthy(a.checkIn) THEN <<>>
             ELSE requests_post(Request("WS_Integracion", "cotizarReserva",
             [k |-> "fields", espacioId |-> str(a.espacioId),
             checkIn |-> str(a.checkIn)], TIMEOUT))
      [] f = "wsIntegracion.buscarServicios" ->
           IF ~(Truthy(a.ubicacion) \/ Truthy(a.puntuacion)) THEN <<>>
             ELSE requests_post(Request("WS_Integracion", "buscarServicios",
             wsIntegracion_buscarServicios_xml_fields(a.ubicacion, a.puntuacion),
             TIMEOUT))
      [] f = "views.CargarEspaciosView.get" ->
           LET filtros == views_CargarEspaciosView_filtros(a)
           IN  IF ~filtros.filtros_validos
               THEN requests_post(Request("WS_Integracion",
                      "seleccionarEspaciosDetalladosPorPaginas",
                      [k |-> "fields", pagina |-> str(PyInt(1))], TIMEOUT))
               ELSE IF ~(Truthy(filtros.ubicacion) \/ Truthy(filtros.puntuacion)) THEN <<>>
               ELSE requests_post(Request("WS_Integracion", "buscarServicios",
                      wsIntegracion_buscarServicios_xml_fields(filtros.ubicacion,
                                                               filtros.puntuacion),
                      TIMEOUT))
      [] f = "wsAmenidades.seleccionarAmenidades" ->
           requests_post(Request("WS_GestionAmenidades", "seleccionarAmenidades", NoFields, TIMEOUT))
      [] f = "wsReservas.obtenerReservasBloqueadas" ->
           requests_post(Request("WS_GestionReservas", "obtenerReservasBloqueadas", NoFields, TIMEOUT))
      [] f = "wsPagos.actualizarPago" ->
           requests_post(Request("WS_GestionPagos", "actualizarPago",
             wsPagos_actualizarPago_soap_body(a), TIMEOUT))
      [] f = "wsPagos.seleccionarPagos" ->
           requests_post(Request("WS_GestionPagos", "seleccionarPagos", NoFields, TIMEOUT))
      [] f = "wsPoliticas.insertarPolitica" ->
           IF \E c \in {"Id", "Nombre", "FechaRegistro", "EsActivo"} : a[c].k = "missing"
             THEN <<>>
             ELSE requests_post(Request("WS_GestionPoliticas", "insertarPolitica",
             [k |-> "fields", Id |-> str(a.Id),
             DescripcionPolitica |-> str(a.Nombre),
             FechaRegistro |-> str(a.FechaRegistro),
             EsActivo |-> IF Truthy(a.EsActivo) THEN T_true ELSE T_false], TIMEOUT))
      [] f = "wsPoliticas.eliminarPolitica" ->
           IF ~IsPositiveInt(a) THEN <<>>
             ELSE requests_post(Request("WS_GestionPoliticas", "eliminarPolitica",
             [k |-> "fields", id |-> str(a)], TIMEOUT))
      [] f = "views.api_seleccionar_politicas" ->
           requests_post(Request("WS_GestionPoliticas", "seleccionarPoliticas", NoFields, TIMEOUT))
      [] f = "views.api_eliminar_politica" ->
           IF ~IsPositiveInt(views_api_eliminar_politica(a)) THEN <<>>
             ELSE requests_post(Request("WS_GestionPoliticas", "eliminarPolitica",
             [k |-> "fields", id |-> str(views_api_eliminar_politica(a))], TIMEOUT))

\* What each adapter function, and each endpoint with the adapter it calls,
\* returns, by name.
Adapter(f, a, r) ==
    CASE f = "wsHotel.seleccionarHoteles" ->
           except_Exception(wsHotel_seleccionarHoteles_try(r))
      [] f = "wsHotel.buscarHotelPorNombre" ->
           except_Exception(wsHotel_buscarHotelPorNombre_try(a, r))
      [] f = "wsHotel.actualizarHotel" ->
           except_Exception(wsHotel_actualizarHotel_try(a, r))
      [] f = "wsHotel.insertarHotel" ->
           except_Exception(wsHotel_insertarHotel_try(a, r))
      [] f = "wsEspXRes.insertarRelacion" ->
           except_Exception(wsEspXRes_insertarRelacion_try(a, r))
      [] f = "wsEspXRes.seleccionarPorReserva" ->
           except_Exception(wsEspXRes_seleccionarPorReserva_try(a, r))
      [] f = "wsEspXRes.seleccionarPorEspacio" ->
           except_Exception(wsEspXRes_seleccionarPorEspacio_try(a, r))
      [] f = "wsEspXRes.espacioDisponible" ->
           except_Exception(wsEspXRes_espacioDisponible_try(a.espacioId, a.fechaInicio, r))
      [] f = "wsEspXRes.actualizarPuntuacion" ->
           except_Exception(wsEspXRes_actualizarPuntuacion_try(a.idRelacion, a.puntuacion, r))
      [] f = "wsUsuarios.actualizarUsuario" ->
           except_Exception(wsUsuarios_actualizarUsuario_try(a, r))
      [] f = "wsUsuarios.seleccionarPorId" ->
           except_Exception(wsUsuarios_seleccionarPorId_try(a, r))
      [] f = "wsUsuarios.iniciarSesion" ->
           except_Exception(wsUsuarios_iniciarSesion_try(a.email, a.password, r))
      [] f = "views.LoginAPIView.post" ->
           views_LoginAPIView_post(a.email, a.password,
             except_Exception(wsUsuarios_iniciarSesion_try(a.email, a.password, r)))
      [] f = "wsUsuarios.insertarUsuario" ->
           except_Exception(wsUsuarios_insertarUsuario_try(a, r))
      [] f = "wsTipoAlimentacion.seleccionarInactivos" ->
           wsTipoAlimentacion_seleccionarInactivos_except(wsTipoAlimentacion_seleccionarInactivos_try(r))
      [] f = "wsTipoAlimentacion.seleccionarPorId" ->
           wsTipoAlimentacion_seleccionarPorId_except(wsTipoAlimentacion_seleccionarPorId_try(a, r))
      [] f = "wsEspacios.seleccionarEspacios" ->
           wsEspacios_seleccionarEspacios_except(wsEspacios_seleccionarEspacios_try(r))
      [] f = "wsEspacios.actualizarEspacio" ->
           except_Exception(wsEspacios_actualizarEspacio_try(a, r))
      [] f = "wsEspacios.eliminarEspacio" ->
           wsEspacios_eliminarEspacio_except(wsEspacios_eliminarEspacio_try(a, r))
      [] f = "wsIntegracion.seleccionarEspaciosDetalladosPorPaginas" ->
           except_Exception(wsIntegracion_seleccionarEspaciosDetalladosPorPaginas_try(a, r))
      [] f = "wsIntegracion.cotizarReserva" ->
           except_Exception(wsIntegracion_cotizarReserva_try(a.espacioId, a.checkIn, r))
      [] f = "wsIntegracion.buscarServicios" ->
           except_Exception(wsIntegracion_buscarServicios_try(a.ubicacion, a.puntuacion, r))
      [] f = "views.CargarEspaciosView.get" ->
           LET filtros == views_CargarEspaciosView_filtros(a)
           IN  views_CargarEspaciosView_get(
                 IF filtros.filtros_validos
                 THEN except_Exception(wsIntegracion_buscarServicios_try(
                        filtros.ubicacion, filtros.puntuacion, r))
                 ELSE except_Exception(
                        wsIntegracion_seleccionarEspaciosDetalladosPorPaginas_try(PyInt(1), r)))
      [] f = "wsAmenidades.seleccionarAmenidades" ->
           except_Exception(wsAmenidades_seleccionarAmenidades_try(r))
      [] f = "wsReservas.obtenerReservasBloqueadas" ->
           except_Exception(wsReservas_obtenerReservasBloqueadas_try(r))
      [] f = "wsPagos.actualizarPago" ->
           except_Exception(wsPagos_actualizarPago_try(a, r))
      [] f = "wsPagos.seleccionarPagos" ->
           except_Exception(wsPagos_seleccionarPagos_try(r))
      [] f = "wsPoliticas.insertarPolitica" ->
           except_Exception(wsPoliticas_insertarPolitica_try(a, r))
      [] f = "wsPoliticas.eliminarPolitica" ->
           except_Exception(wsPoliticas_eliminarPolitica_try(a, r))
      [] f = "views.api_seleccionar_politicas" ->
           views_api_seleccionar_politicas(
             except_Exception(wsPoliticas_seleccionarPoliticas_try(r)))
      [] f = "views.api_eliminar_politica" ->
           except_Exception(wsPoliticas_eliminarPolitica_try(views_api_eliminar_politica(a), r))

(* ------------------------------------------------------------------------ *)
(* The calls                                                                *)
(* ------------------------------------------------------------------------ *)

\* The most calls a caller makes one after the other.
MaxCalls == 2

\* What datetime.now().isoformat() can give a call.
Clock == {PyStr(<<"2", "0", "2", "6">>), PyStr(<<"2", "0", "2", "7">>)}

\* The adapter functions that read the clock.
ClockReaders ==
    {"wsHotel.actualizarHotel", "wsHotel.insertarHotel", "wsEspacios.actualizarEspacio"}

\* A caller calls the adapter function f with arguments of Args while the
\* remote service behaves as one of Remotes: the function sends its requests
\* and returns its value.
Call(f, Args, Remotes) ==
    /\ fn = "none"
    /\ calls < MaxCalls
    /\ \E a \in Args, r \in Remotes, t \in IF f \in ClockReaders THEN Clock ELSE {PyNone} :
         /\ fn' = f
         /\ args' = a
         /\ now' = t
         /\ remote' = r
         /\ sent' = Requests(f, a, t, r)
         /\ out' = Adapter(f, a, r)
         /\ calls' = calls + 1

wsHotel_seleccionarHoteles ==
    Call("wsHotel.seleccionarHoteles",
         {<<>>},
         ListRemotes)

wsHotel_buscarHotelPorNombre ==
    Call("wsHotel.buscarHotelPorNombre",
         {PyStr(<<"A">>), PyStr(<<>>), PyNone, PyInt(5)},
         ListRemotes)

wsHotel_actualizarHotel ==
    Call("wsHotel.actualizarHotel",
         Entidades,
         ScalarRemotes)

wsHotel_insertarHotel ==
    Call("wsHotel.insertarHotel",
         Entidades,
         ScalarRemotes)

wsEspXRes_insertarRelacion ==
    Call("wsEspXRes.insertarRelacion",
         Relaciones,
         ScalarRemotes)

wsEspXRes_seleccionarPorReserva ==
    Call("wsEspXRes.seleccionarPorReserva",
         IdValues,
         ListRemotes)

wsEspXRes_seleccionarPorEspacio ==
    Call("wsEspXRes.seleccionarPorEspacio",
         IdValues,
         ListRemotes)

wsEspXRes_espacioDisponible ==
    Call("wsEspXRes.espacioDisponible",
         {[espacioId |-> espacioId, fechaInicio |-> fechaInicio] :
              espacioId \in IdValues, fechaInicio \in {PyStr(T_fecha), PyStr(<<>>)}},
         ScalarRemotes)

wsEspXRes_actualizarPuntuacion ==
    Call("wsEspXRes.actualizarPuntuacion",
         {[idRelacion |-> idRelacion, puntuacion |-> puntuacion] :
              idRelacion \in {PyInt(5), PyInt(0)},
              puntuacion \in {PyInt(0), PyInt(5), PyInt(6), PyInt(-1), PyNone,
                              PyStr(<<"3">>), PyBool(TRUE)}},
         ScalarRemotes)

wsUsuarios_actualizarUsuario ==
    Call("wsUsuarios.actualizarUsuario",
         Entidades,
         ScalarRemotes)

wsUsuarios_seleccionarPorId ==
    Call("wsUsuarios.seleccionarPorId",
         Ids,
         ScalarRemotes)

wsUsuarios_iniciarSesion ==
    Call("wsUsuarios.iniciarSesion",
         {[email |-> PyStr(<<"a", "@", "b">>), password |-> password] :
              password \in {PyStr(<<"p">>), PyStr(<<>>)}},
         ScalarRemotes)

LoginAPIView_post ==
    Call("views.LoginAPIView.post",
         {[email |-> email, password |-> password] :
              email \in {PyStr(<<"a", "@", "b">>), PyNone},
              password \in {PyStr(<<"p">>), PyStr(<<>>), PyNone}},
         ScalarRemotes)

wsUsuarios_insertarUsuario ==
    Call("wsUsuarios.insertarUsuario",
         Entidades,
         ScalarRemotes)

wsTipoAlimentacion_seleccionarInactivos ==
    Call("wsTipoAlimentacion.seleccionarInactivos",
         {<<>>},
         ListRemotes)

wsTipoAlimentacion_seleccionarPorId ==
    Call("wsTipoAlimentacion.seleccionarPorId",
         Ids,
         ScalarRemotes)

wsEspacios_seleccionarEspacios ==
    Call("wsEspacios.seleccionarEspacios",
         {<<>>},
         ListRemotes)

wsEspacios_actualizarEspacio ==
    Call("wsEspacios.actualizarEspacio",
         Entidades,
         ScalarRemotes)

wsEspacios_eliminarEspacio ==
    Call("wsEspacios.eliminarEspacio",
         Ids,
         ScalarRemotes)

wsIntegracion_seleccionarEspaciosDetalladosPorPaginas ==
    Call("wsIntegracion.seleccionarEspaciosDetalladosPorPaginas",
         {PyInt(1)},
         ListRemotes)

wsIntegracion_cotizarReserva ==
    Call("wsIntegracion.cotizarReserva",
         {[espacioId |-> espacioId, checkIn |-> checkIn] :
              espacioId \in Ids, checkIn \in {PyStr(T_fecha), PyStr(<<>>)}},
         ScalarRemotes)

wsIntegracion_buscarServicios ==
    Call("wsIntegracion.buscarServicios",
         {[ubicacion |-> ubicacion, puntuacion |-> puntuacion] :
              ubicacion \in {PyNone, PyStr(<<"A">>), PyStr(<<>>)}, puntuacion \in {PyNone, PyInt(0), PyInt(3)}},
         ListRemotes)

CargarEspaciosView_get ==
    Call("views.CargarEspaciosView.get",
         {[ubicacion |-> ubicacion, puntuacion |-> puntuacion] :
              ubicacion \in {PyNone, PyStr(<<"A">>), PyStr(<<" ">>),
                             PyStr(<<"n", "u", "l", "l">>)},
              puntuacion \in {PyNone, PyStr(<<"3">>), PyStr(<<"0">>), PyStr(T_abc)}},
         ListRemotes)

wsAmenidades_seleccionarAmenidades ==
    Call("wsAmenidades.seleccionarAmenidades",
         {<<>>},
         ListRemotes)

wsReservas_obtenerReservasBloqueadas ==
    Call("wsReservas.obtenerReservasBloqueadas",
         {<<>>},
         ListRemotes)

wsPagos_actualizarPago ==
    Call("wsPagos.actualizarPago",
         Entidades,
         ScalarRemotes)

wsPagos_seleccionarPagos ==
    Call("wsPagos.seleccionarPagos",
         {<<>>},
         ListRemotes)

wsPoliticas_insertarPolitica ==
    Call("wsPoliticas.insertarPolitica",
         Entidades,
         ScalarRemotes)

wsPoliticas_eliminarPolitica ==
    Call("wsPoliticas.eliminarPolitica",
         IdValues,
         ScalarRemotes)

api_seleccionar_politicas ==
    Call("views.api_seleccionar_politicas",
         {<<>>},
         ListRemotes)

api_eliminar_politica ==
    Call("views.api_eliminar_politica",
         Ids,
         ScalarRemotes)

(* ------------------------------------------------------------------------ *)
(* The caller                                                               *)
(* ------------------------------------------------------------------------ *)

Init ==
    /\ fn = "none"
    /\ args = <<>>
    /\ now = PyNone
    /\ remote = PyNone
    /\ sent = <<>>
    /\ out = PyNone
    /\ calls = 0

\* The caller has used the returned value: the call is over and nothing of it
\* remains, the adapters keeping no state between calls.
Responder ==
    /\ fn # "none"
    /\ fn' = "none"
    /\ args' = <<>>
    /\ now' = PyNone
    /\ remote' = PyNone
    /\ sent' = <<>>
    /\ out' = PyNone
    /\ UNCHANGED calls

Next ==
    \/ wsHotel_seleccionarHoteles
    \/ wsHotel_buscarHotelPorNombre
    \/ wsHotel_actualizarHotel
    \/ wsHotel_insertarHotel
    \/ wsEspXRes_insertarRelacion
    \/ wsEspXRes_seleccionarPorReserva
    \/ wsEspXRes_seleccionarPorEspacio
    \/ wsEspXRes_espacioDisponible
    \/ wsEspXRes_actualizarPuntuacion
    \/ wsUsuarios_actualizarUsuario
    \/ wsUsuarios_seleccionarPorId
    \/ wsUsuarios_iniciarSesion
    \/ LoginAPIView_post
    \/ wsUsuarios_insertarUsuario
    \/ wsTipoAlimentacion_seleccionarInactivos
    \/ wsTipoAlimentacion_seleccionarPorId
    \/ wsEspacios_seleccionarEspacios
    \/ wsEspacios_actualizarEspacio
    \/ wsEspacios_eliminarEspacio
    \/ wsIntegracion_seleccionarEspaciosDetalladosPorPaginas
    \/ wsIntegracion_cotizarReserva
    \/ wsIntegracion_buscarServicios
    \/ CargarEspaciosView_get
    \/ wsAmenidades_seleccionarAmenidades
    \/ wsReservas_obtenerReservasBloqueadas
    \/ wsPagos_actualizarPago
    \/ wsPagos_seleccionarPagos
    \/ wsPoliticas_insertarPolitica
    \/ wsPoliticas_eliminarPolitica
    \/ api_seleccionar_politicas
    \/ api_eliminar_politica
    \/ Responder

Spec == Init /\ [][Next]_vars

(* ------------------------------------------------------------------------ *)
(* Properties                                                               *)
(* ------------------------------------------------------------------------ *)

\* A call has been made and its request has left the adapter.
Called == fn # "none" /\ sent # <<>>

HasKey(o, key) == o.k = "dict" /\ key \in DOMAIN o.v

\* The failure marker callers look for.
IsFailureValue(o) == HasKey(o, "error")

\* C1: whatever the arguments and whatever the remote service does (timeout,
\* connection error, any status, any body), an adapter call ends with a
\* returned value -- a dict, a list or None -- and never with an exception
\* reaching its caller.
C1_NeverRaises == fn # "none" => out.k \in {"dict", "list", "none"}

\* An exception was raised inside the adapter (int() of a non-numeric result
\* text) and came back as a returned value.
C1_Witness ==
    /\ fn = "wsHotel.insertarHotel"
    /\ Called
    /\ remote.k = "resp" /\ remote.status = 200 /\ remote.body.wf
    /\ remote.body.node = "plain" /\ remote.body.text = PyStr(T_abc)
    /\ out = PyDict([error |-> "invalid literal for int()"])

\* The value returned for a status other than 200 carries the status code and
\* the raw body.
CarriesStatusAndBody(o, r) ==
    /\ IsFailureValue(o)
    /\ \/ /\ HasKey(o, "detalle")
          /\ o.v.error = "HTTP " \o ToString(r.status)
          /\ o.v.detalle = Xml(r.body)
       \/ /\ ~HasKey(o, "detalle")
          /\ o.v.error = "HTTP " \o ToString(r.status) \o ": " \o Xml(r.body)

\* C2: when the remote service answers with a status other than 200 (400,
\* 404, 500, 503), the adapter returns a failure value that carries that
\* status code and the raw response body.
C2_Non200CarriesStatusAndBody ==
    (Called /\ remote.k = "resp" /\ remote.status # 200)
        => CarriesStatusAndBody(out, remote)

\* The value returned for a transport failure names its cause.
CarriesCause(o, c) ==
    \/ IsFailureValue(o) /\ o.v.error = c.msg
    \/ /\ HasKey(o, "mensaje") /\ ~HasKey(o, "error")
       /\ o.v.mensaje \in {"Error al consultar los espacios: " \o c.msg,
                           "Error al eliminar el espacio: " \o c.msg}

\* C3: when the POST fails at transport level or times out, the adapter
\* returns a failure value carrying the cause, never a default such as an
\* empty list or a not-found result.
C3_TransportFailureCarriesCause ==
    (Called /\ remote.k = "fail") => CarriesCause(out, remote.cause)

\* A 200 response, well-formed, whose Result element is absent or empty.
EmptyResult(r) ==
    /\ r.k = "resp" /\ r.status = 200 /\ r.body.wf
    /\ \/ r.body.node = "absent"
       \/ r.body.text.k = "none" /\ r.body.recs = <<>>

\* C4: when a 200 response has an empty or absent result node, the adapter
\* returns an empty collection or its not-found scalar, never a failure value.
C4_EmptyResultIsNotAFailure ==
    (Called /\ EmptyResult(remote)) => ~IsFailureValue(out)

\* What can go wrong other than a body that does not parse: a transport
\* failure, a status other than 200, a well-formed body without Result element.
OtherFailures ==
    Fails
      \cup {Response(st, b) : st \in ErrorStatus, b \in ErrorBodies}
      \cup {Response(200, b) : b \in NoNodeBodies}

\* C5: when the body of a 200 response is not well-formed XML, the adapter
\* returns a result that differs from every result it returns for a transport
\* failure, for a status other than 200 and for a missing result node.
C5_ParseFailureIsDistinct ==
    (Called /\ remote.k = "resp" /\ remote.status = 200 /\ ~remote.body.wf)
        => \A r2 \in OtherFailures : Adapter(fn, args, r2) # out

\* The adapters that return a list of decoded records.
ListAdapters ==
    {"wsHotel.seleccionarHoteles", "wsHotel.buscarHotelPorNombre",
     "wsEspXRes.seleccionarPorReserva", "wsEspXRes.seleccionarPorEspacio",
     "wsTipoAlimentacion.seleccionarInactivos", "wsEspacios.seleccionarEspacios",
     "wsIntegracion.seleccionarEspaciosDetalladosPorPaginas",
     "wsIntegracion.buscarServicios", "wsAmenidades.seleccionarAmenidades",
     "wsReservas.obtenerReservasBloqueadas", "wsPagos.seleccionarPagos"}

\* The adapters whose Result element is itself one record.
RecordAdapters ==
    {"wsUsuarios.seleccionarPorId", "wsTipoAlimentacion.seleccionarPorId",
     "wsIntegracion.cotizarReserva"}

\* The keys under which the list adapters return their records.
ListKeys ==
    {"hoteles", "relaciones", "espacios", "Datos", "amenidades", "reservas", "pagos"}

HasDecoded(o) ==
    \/ o.k = "list"
    \/ o.k = "dict" /\ ~IsFailureValue(o) /\ ListKeys \cap DOMAIN o.v # {}

\* The decoded records of a returned value, in the order returned.
Decoded(o) ==
    IF o.k = "list" THEN o.v
    ELSE o.v[CHOOSE key \in ListKeys \cap DOMAIN o.v : TRUE]

\* A well-formed 200 response with a Result element and the records in it.
RecordsResponse(r) ==
    /\ r.k = "resp" /\ r.status = 200 /\ r.body.wf
    /\ r.body.node # "absent"

\* The keys under which the adapters return each leaf of a record.
KeysOf(leaf) ==
    CASE leaf = "Id" -> {"Id", "id", "EspacioId"}
      [] leaf = "Nombre" -> {"Nombre", "nombre", "TokenSesion", "Estado", "RoomType"}
      [] leaf = "FechaRegistro" -> {"FechaRegistro", "fechaRegistro", "CheckIn"}
      [] leaf = "EsActivo" -> {"EsActivo", "esActivo", "BreakfastIncluded"}

LeafNames == {"Id", "Nombre", "FechaRegistro", "EsActivo"}

Decodes(d, leaf) == d.k = "dict" /\ KeysOf(leaf) \cap DOMAIN d.v # {}

Field(d, leaf) == d.v[CHOOSE key \in KeysOf(leaf) \cap DOMAIN d.v : TRUE]

\* The identifier of a decoded record as text.
IdText(d) ==
    IF Decodes(d, "Id") /\ Field(d, "Id").k \in {"int", "str"}
    THEN str(Field(d, "Id")) ELSE <<>>

\* C6: for a well-formed 200 response whose Result element contains N child
\* records, a list-returning adapter returns exactly N decoded records, in
\* document order (the i-th decoded record is the one of the i-th child).
C6_ListLengthAndOrder ==
    (Called /\ fn \in ListAdapters /\ RecordsResponse(remote))
        => /\ HasDecoded(out)
           /\ Len(Decoded(out)) = Len(remote.body.recs)
           /\ \A i \in 1..Len(remote.body.recs) :
                LET id == remote.body.recs[i].Id
                IN  (id.k = "text" /\ IsDigitText(id.v))
                        => IdText(Decoded(out)[i]) = id.v

\* The records an adapter returned: those of its list, or the one record.
RecordsOut(f, o) ==
    IF f \in ListAdapters
    THEN (IF HasDecoded(o) THEN Decoded(o) ELSE <<>>)
    ELSE (IF o.k = "dict" /\ ~IsFailureValue(o) THEN <<o>> ELSE <<>>)

\* The documented default of each leaf.
DefaultOf(leaf) ==
    CASE leaf = "Id" -> PyInt(0)
      [] leaf = "Nombre" -> PyStr(<<>>)
      [] leaf = "FechaRegistro" -> PyStr(<<>>)
      [] leaf = "EsActivo" -> PyBool(FALSE)

\* The i-th record of the response was decoded and its field for the leaf
\* has the value v (an adapter that does not decode the leaf has no such field).
DecodedAs(i, leaf, v) ==
    LET recs == RecordsOut(fn, out)
    IN  /\ ~IsFailureValue(out)
        /\ Len(recs) = Len(remote.body.recs)
        /\ Decodes(recs[i], leaf) => Field(recs[i], leaf) = v

\* A call that decodes records: all of them, or the one record that the
\* Result element is.
RecordsCall ==
    /\ Called /\ RecordsResponse(remote)
    /\ \/ fn \in ListAdapters
       \/ fn \in RecordAdapters /\ Len(remote.body.recs) = 1

\* Every leaf of the response is as in a complete record, but the given leaf
\* of the i-th record.
OthersComplete(i, leaf) ==
    \A j \in 1..Len(remote.body.recs) :
        IF j = i
        THEN [remote.body.recs[j] EXCEPT ![leaf] = BaseRec[leaf]] = BaseRec
        ELSE remote.body.recs[j] = BaseRec

\* C7: when a record of the response lacks a leaf (every other leaf of the
\* response being complete), the decoded record has the
\* documented default of that field (0 for a number, "" for a string, false
\* for a boolean) and the call does not fail.
C7_MissingLeafGetsDefault ==
    RecordsCall
        => \A i \in 1..Len(remote.body.recs), leaf \in LeafNames :
             (OthersComplete(i, leaf) /\ remote.body.recs[i][leaf].k = "absent")
                 => DecodedAs(i, leaf, DefaultOf(leaf))

\* The adapters whose Result element holds a number.
NumberAdapters ==
    {"wsHotel.insertarHotel", "wsUsuarios.insertarUsuario", "wsEspXRes.insertarRelacion"}

\* C8: when a field expected to be a number holds empty or non-numeric text in
\* a 200 response (every other leaf being complete), the adapter decodes it as the default 0 and returns a
\* successful result: no failure value.
C8_NonNumericGetsDefault ==
    /\ RecordsCall
           => \A i \in 1..Len(remote.body.recs) :
                LET id == remote.body.recs[i].Id
                IN  (OthersComplete(i, "Id") /\ id.k = "text" /\ ~IntParses(id.v))
                        => DecodedAs(i, "Id", PyInt(0))
    /\ (Called /\ fn \in NumberAdapters /\ RecordsResponse(remote)
          /\ (remote.body.text.k = "str" => ~IntParses(remote.body.text.v)))
           => ~IsFailureValue(out)

\* C9: a boolean leaf of a record (every other leaf being complete) is decoded as true exactly when its text
\* equals "true" ignoring case, and as false for every other text ("1" and
\* "yes" included).
C9_BooleanIsTrueText ==
    RecordsCall
        => \A i \in 1..Len(remote.body.recs) :
             LET b == remote.body.recs[i].EsActivo
             IN  (OthersComplete(i, "EsActivo") /\ b.k = "text")
                     => DecodedAs(i, "EsActivo", PyBool(Lower(b.v) = T_true))

\* The adapters that send a boolean field.
BoolSenders ==
    {"wsHotel.actualizarHotel", "wsHotel.insertarHotel",
     "wsUsuarios.actualizarUsuario", "wsUsuarios.insertarUsuario",
     "wsEspXRes.insertarRelacion", "wsPagos.actualizarPago"}

\* C10: a boolean request field is serialized as lowercase text: True as
\* "true" and False as "false".
C10_BooleanSerializedLowercase ==
    (Called /\ fn \in BoolSenders /\ args.EsActivo.k = "bool")
        => sent[1].fields.EsActivo = (IF args.EsActivo.v THEN T_true ELSE T_false)

\* False was sent as "false".
C10_Witness ==
    /\ Called /\ fn = "wsHotel.actualizarHotel"
    /\ args.EsActivo = PyBool(FALSE)
    /\ sent[1].fields.EsActivo = T_false

\* Every record of the response is complete, but for being active or not.
OnlyActivityDiffers(recs) ==
    \A i \in 1..Len(recs) :
        /\ [recs[i] EXCEPT !.EsActivo = BaseRec.EsActivo] = BaseRec
        /\ recs[i].EsActivo \in {Leaf(T_true), Leaf(T_false)}

\* C11: the adapters do not filter the records they return by being active:
\* a listing whose records are alternately active and inactive comes back
\* with all of its records.
C11_NoFilteringByActive ==
    (Called /\ fn \in ListAdapters /\ RecordsResponse(remote)
       /\ OnlyActivityDiffers(remote.body.recs))
        => /\ HasDecoded(out)
           /\ Len(Decoded(out)) = Len(remote.body.recs)

\* Three hotels, the second inactive, and all three are returned.
C11_Witness ==
    /\ Called /\ fn = "wsHotel.seleccionarHoteles" /\ RecordsResponse(remote)
    /\ Len(remote.body.recs) = 3
    /\ remote.body.recs[1].EsActivo = Leaf(T_true)
    /\ remote.body.recs[2].EsActivo = Leaf(T_false)
    /\ remote.body.recs[3].EsActivo = Leaf(T_true)
    /\ HasKey(out, "hoteles") /\ Len(out.v.hoteles) = 3
    /\ out.v.hoteles[2].v.EsActivo = PyBool(FALSE)

OperationRequests == {i \in 1..Len(sent) : sent[i].op # "?WSDL"}

C14_ThirtySecondTimeout ==
    \A i \in 1..Len(sent) : sent[i].timeout = PyInt(TIMEOUT)

\* The adapter functions given a dict of field values that put its name in
\* their request.
EntidadSenders ==
    {"wsHotel.actualizarHotel", "wsHotel.insertarHotel", "wsUsuarios.actualizarUsuario",
     "wsUsuarios.insertarUsuario", "wsEspacios.actualizarEspacio", "wsPagos.actualizarPago"}

\* The text the request carries in the element of the name.
NombreSent ==
    IF fn = "wsPagos.actualizarPago" THEN sent[1].fields.Estado ELSE sent[1].fields.Nombre

\* C15: a string field value is placed in the request verbatim: the text of
\* its element in the request is the caller's string, character for
\* character, markup characters and blanks included.
C15_StringVerbatim ==
    /\ (fn \in EntidadSenders /\ sent # <<>> /\ args.Nombre.k = "str")
         => NombreSent = args.Nombre.v
    /\ (fn = "wsHotel.buscarHotelPorNombre" /\ sent # <<>>)
         => sent[1].fields.nombre = args.v

\* C16: a timestamp string the caller supplies is placed in the request
\* exactly as given, neither validated nor rewritten.
C16_TimestampAsGiven ==
    (fn \in EntidadSenders /\ sent # <<>> /\ args.FechaRegistro.k = "str")
        => sent[1].fields.FechaRegistro = args.FechaRegistro.v

\* What seleccionarPoliticas() returned to api_seleccionar_politicas.
RespuestaPoliticas == except_Exception(wsPoliticas_seleccionarPoliticas_try(remote))

\* C17: whenever the adapter a JSON endpoint calls returns a failure value,
\* the endpoint's JSON response is marked as a failure -- exito false or an
\* error field -- and never exito true.
C17_EndpointMarksFailure ==
    /\ (fn = "views.api_seleccionar_politicas" /\ IsFailureValue(RespuestaPoliticas))
         => (HasKey(out, "error") \/ (HasKey(out, "exito") /\ out.v.exito = FALSE))
    /\ (fn = "views.api_eliminar_politica"
           /\ IsFailureValue(Adapter(fn, args, remote)))
         => (HasKey(out, "error") \/ (HasKey(out, "exito") /\ out.v.exito = FALSE))

\* C18: a well-formed request to a list or delete endpoint results in the
\* matching SOAP operation being sent to the remote service.
C18_EndpointSendsOperation ==
    /\ fn = "views.api_seleccionar_politicas"
         => \E i \in 1..Len(sent) : sent[i].op = "seleccionarPoliticas"
    /\ (fn = "views.api_eliminar_politica" /\ IsPositiveInt(args))
         => \E i \in 1..Len(sent) : sent[i].op = "eliminarPolitica"

StartsWith(t, p) == Len(t) >= Len(p) /\ SubSeq(t, 1, Len(p)) = p

\* The predefined entities of XML and the characters they stand for.
Entities ==
    {<<<<"&", "l", "t", ";">>, "<">>, <<<<"&", "g", "t", ";">>, ">">>,
     <<<<"&", "a", "m", "p", ";">>, "&">>}

\* What the receiver of a request reads inside an element whose content is
\* t: character data, entities replaced, when t is nothing but text; a "<"
\* opens markup and a lone "&" makes the document ill-formed, and then the
\* content is not the text of that element.
RECURSIVE CharData(_)
CharData(t) ==
    IF t = <<>> THEN PyStr(<<>>)
    ELSE IF t[1] = "<" THEN [k |-> "markup"]
    ELSE IF t[1] = "&" /\ ~\E e \in Entities : StartsWith(t, e[1]) THEN [k |-> "markup"]
    ELSE LET e == IF t[1] = "&" THEN CHOOSE x \in Entities : StartsWith(t, x[1])
                  ELSE <<<<t[1]>>, t[1]>>
             rest == CharData(SubSeq(t, Len(e[1]) + 1, Len(t)))
         IN  IF rest.k = "str" THEN PyStr(<<e[2]>> \o rest.v) ELSE rest

\* C19: a string the caller supplies for a field changes nothing of the
\* request but the text of that field: the receiver reads the content of the
\* field's element as text, and no markup in it.
C19_StringStaysInItsField ==
    /\ (fn \in EntidadSenders /\ sent # <<>> /\ args.Nombre.k = "str")
         => CharData(NombreSent).k = "str"
    /\ (fn = "wsHotel.buscarHotelPorNombre" /\ sent # <<>>)
         => CharData(sent[1].fields.nombre).k = "str"

\* The remote behaviour r with the Result element of its response written
\* the plain way, <opResult>, in the default namespace.
WrittenPlain(r) == [r EXCEPT !.body.node = "plain"]

\* C20: after a 200 response the adapter finds the Result element whenever
\* the response holds it as a namespace-qualified element: the value returned
\* is the one returned for the same element written the plain way, whatever
\* the prefix or the attributes it is written with.
C20_ResultFoundHoweverWritten ==
    (fn # "none" /\ sent # <<>> /\ remote.k = "resp" /\ remote.status = 200
       /\ remote.body.wf /\ remote.body.node # "absent")
        => out = Adapter(fn, args, WrittenPlain(remote))

\* C21: a list adapter decodes only the record elements that sit directly
\* under the results container: it returns no more records than there are,
\* an element of the same name nested inside a record giving no record of
\* its own.
C21_OnlyDirectChildren ==
    (fn \in ListAdapters /\ sent # <<>> /\ RecordsResponse(remote) /\ HasDecoded(out))
        => Len(Decoded(out)) <= Len(remote.body.recs)

\* The errors the adapters return on looking at their arguments.
ValidationErrors ==
    {"El parámetro 'nombre' es obligatorio y debe ser una cadena de texto.",
     "El campo 'Id' del hotel es obligatorio y debe ser un número entero válido.",
     "El campo 'Nombre' es obligatorio para actualizar un hotel.",
     "El campo 'Nombre' del hotel es obligatorio.",
     "Debe proporcionar un 'reservaId' válido (entero mayor que 0).",
     "Debe proporcionar un 'espacioId' válido (entero mayor que 0).",
     "Debe proporcionar 'fechaInicio' y 'fechaFin' válidas.",
     "Debe proporcionar un 'idRelacion' válido (entero mayor que 0).",
     "La 'puntuacion' debe ser un número entero entre 0 y 5.",
     "Debe proporcionar espacioId, checkIn y checkOut válidos.",
     "Debe proporcionar al menos un criterio de búsqueda.",
     "El parámetro 'id_politica' debe ser un número entero positivo.",
     "Faltan campos requeridos: {', '.join(faltantes)}"}

IsValidationError(o) == HasKey(o, "error") /\ o.v.error \in ValidationErrors

\* C22: whenever an adapter returns an argument-validation error, it has sent
\* no request to the remote service during that call.
C22_ValidationErrorSendsNothing ==
    (fn # "none" /\ IsValidationError(out)) => sent = <<>>

\* actualizarHotel refused a hotel without a valid Id, the remote service
\* being ready to answer.
C22_Witness ==
    /\ fn = "wsHotel.actualizarHotel"
    /\ args.Id = PyInt(0)
    /\ remote.k = "resp" /\ remote.status = 200
    /\ IsValidationError(out)
    /\ sent = <<>>

\* The update and delete operations of the model.
UpdateDeleteAdapters ==
    {"wsHotel.actualizarHotel", "wsUsuarios.actualizarUsuario", "wsEspacios.actualizarEspacio",
     "wsEspacios.eliminarEspacio", "wsPagos.actualizarPago", "wsPoliticas.eliminarPolitica"}

\* The remote service answered 200 with a Result element whose text,
\* blanks and letter case aside, is "true".
RemoteSaidTrue ==
    /\ remote.k = "resp" /\ remote.status = 200
    /\ remote.body.node # "absent" /\ remote.body.text.k = "str"
    /\ Lower(Strip(remote.body.text.v)) = T_true

\* C23: an update or delete operation is reported as successful (exito true)
\* only when the text of the remote Result element was "true"; a remote
\* "false" is never reported as success.
C23_SuccessOnlyWhenTrue ==
    (fn \in UpdateDeleteAdapters /\ HasKey(out, "exito") /\ out.v.exito = TRUE)
        => RemoteSaidTrue

\* The insert operations of the model.
InsertAdapters ==
    {"wsHotel.insertarHotel", "wsEspXRes.insertarRelacion", "wsUsuarios.insertarUsuario",
     "wsPoliticas.insertarPolitica"}

\* The value says the insert succeeded.
ReportsInsert(o) ==
    \/ HasKey(o, "exito") /\ o.v.exito = TRUE
    \/ HasKey(o, "insertado") /\ o.v.insertado = TRUE

\* The remote service answered 200 with a Result element holding an integer
\* greater than 0.
RemoteGavePositiveId ==
    /\ remote.k = "resp" /\ remote.status = 200
    /\ remote.body.node # "absent" /\ remote.body.text.k = "str"
    /\ IntParses(remote.body.text.v) /\ IntOf(remote.body.text.v) > 0

\* C24: an insert adapter reports success only when the remote service
\* returned an integer id greater than 0: an id that is missing, not a
\* number, zero or negative is never reported as a successful insert.
C24_InsertNeedsPositiveId ==
    (fn \in InsertAdapters /\ ReportsInsert(out)) => RemoteGavePositiveId

\* The remote service answered 200 with a user record whose Id is an integer
\* greater than 0.
RemoteGaveUser ==
    /\ remote.k = "resp" /\ remote.status = 200 /\ remote.body.node # "absent"
    /\ remote.body.recs # <<>>
    /\ remote.body.recs[1].Id.k = "text"
    /\ IntParses(remote.body.recs[1].Id.v) /\ IntOf(remote.body.recs[1].Id.v) > 0

\* C25: a login is reported as successful, by iniciarSesion (a user and no
\* error) and by LoginAPIView (success true), only when the remote response
\* carries a user record with an Id greater than 0; a Result element that is
\* there but empty is never reported as a successful login.
C25_LoginNeedsUser ==
    /\ (fn = "wsUsuarios.iniciarSesion" /\ ~IsFailureValue(out)) => RemoteGaveUser
    /\ (fn = "views.LoginAPIView.post" /\ HasKey(out, "success") /\ out.v.success = TRUE)
         => RemoteGaveUser

\* C26: in every result of a list adapter that is no error and has a count
\* field (total), the count is the length of the list returned.
C26_CountIsLength ==
    /\ (HasKey(out, "total") /\ HasKey(out, "pagos")) => out.v.total = Len(out.v.pagos)
    /\ (HasKey(out, "total") /\ HasKey(out, "reservas"))
         => out.v.total = Len(out.v.reservas)

\* seleccionarPagos returned two pagos and the count 2.
C26_Witness ==
    /\ fn = "wsPagos.seleccionarPagos"
    /\ remote.k = "resp" /\ Len(remote.body.recs) = 2
    /\ HasKey(out, "pagos") /\ Len(out.v.pagos) = 2
    /\ out.v.total = 2

\* The adapter operations whose argument is one record id.
IdAdapters ==
    {"wsEspXRes.seleccionarPorReserva", "wsEspXRes.seleccionarPorEspacio",
     "wsUsuarios.seleccionarPorId", "wsTipoAlimentacion.seleccionarPorId",
     "wsEspacios.eliminarEspacio", "wsPoliticas.eliminarPolitica"}

\* C27: every adapter operation that takes a record id answers an id that is
\* not an integer greater than 0 with an error, and sends nothing for it.
C27_BadIdRejectedUnsent ==
    (fn \in IdAdapters /\ ~IsPositiveInt(args))
        => (sent = <<>> /\ IsFailureValue(out))

\* C28: whenever CargarEspaciosView takes the filters of the request for
\* real ones and calls buscarServicios, buscarServicios does not turn the
\* call down for lacking a search criterion.
C28_FilteredSearchNotRejected ==
    fn = "views.CargarEspaciosView.get"
        => ~(HasKey(out, "error")
             /\ out.v.error = "Debe proporcionar al menos un criterio de búsqueda.")

\* C29: whatever value a JSON body supplies for EsActivo (true, false, null,
\* 0, 1, a string such as "false"), the text put in the EsActivo element of
\* the request is exactly "true" or "false".
C29_EsActivoTrueOrFalse ==
    (Called /\ fn \in BoolSenders /\ sent # <<>>)
        => sent[1].fields.EsActivo \in {T_true, T_false}

\* An integer between 0 and 5 as isinstance(x, int) and 0 <= x <= 5 take it:
\* an int in the range, or a bool, which Python counts as the int 0 or 1.
IsPuntuacion(x) == (x.k = "int" /\ 0 <= x.v /\ x.v <= 5) \/ x.k = "bool"

====
